---- MODULE Spec2Model ----
(***************************************************************************)
(* The Q&A segmentation service of services/llm-analyzer: the boundary     *)
(* pass (Pass 1), the block pass (Pass 2), the full pipeline and the       *)
(* SQLite tables they write, as a state machine (Spec); opinion detection  *)
(* as served by llm-analyzer and opinion-detector (DetectSpec); the        *)
(* validators on one raw item (ItemSpec) and on one oracle list            *)
(* (ListSpec); two boundary passes served at once (RaceSpec).              *)
(*                                                                         *)
(* Numbers: utterance indices and times are integers; a confidence is      *)
(* held in tenths (0.5 is 5, 1.0 is 10, 7.5 is 75).  The created_at        *)
(* timestamps are left out: they are wall-clock values no handler reads.   *)
(***************************************************************************)
EXTENDS Integers, Sequences, FiniteSets, TLC

\* ------------------------------------------------------------------ bounds
MaxIdx == 1
MaxUtts == 2
MaxSegs == 2
MaxBlocks == 1
MaxList == 3
MaxRaceSegs == 2

\* ------------------------------------------------------- program constants
MaxAttempts == 3
DefaultConfidence == 5
FallbackConfidence == 5

Videos == {"vA", "vB"}

Min(a, b) == IF a <= b THEN a ELSE b
Max(a, b) == IF a >= b THEN a ELSE b

\* ------------------------------------------------- values of a parsed JSON
\* A field of a record the oracle returned: a number, a number with a
\* fractional part (n + 1/2), a value that is not a number (string, null,
\* list), or no such key.
Num(n) == [t |-> "num", n |-> n]
Half(n) == [t |-> "half", n |-> n]
NonNum == [t |-> "nonnum", n |-> 0]
Absent == [t |-> "absent", n |-> 0]

\* dict.get(key, default)
Get(v, default) == IF v.t = "absent" THEN Num(default) ELSE v

\* a numeric value in half units, so that n and n + 1/2 compare exactly
Twice(v) == IF v.t = "half" THEN 2 * v.n + 1 ELSE 2 * v.n

NoNotes == "<none>"
TypeAbsent == "<absent>"

\* f"{i:03d}"
Digits == <<"0", "1", "2", "3", "4", "5", "6", "7", "8", "9">>
RECURSIVE DecStr(_)
DecStr(n) == IF n < 10 THEN Digits[n + 1] ELSE DecStr(n \div 10) \o Digits[(n % 10) + 1]
RECURSIVE PadLeft(_, _)
PadLeft(s, w) == IF Len(s) >= w THEN s ELSE PadLeft("0" \o s, w)
\* ids counted from one
SegId_FromOne(i) == "seg_" \o PadLeft(DecStr(i + 1), 3)

SegId(i) == "seg_" \o PadLeft(DecStr(i), 3)
BlockId(i) == "qa_" \o PadLeft(DecStr(i), 3)

\* --------------------------------------------------------------- validators
\* the comparison without its last link
ChainCompare_NoUpper(lo, s, e, hi) ==
    IF s.t = "nonnum" THEN "raise"
    ELSE IF ~(2 * lo <= Twice(s)) THEN "false"
    ELSE IF e.t = "nonnum" THEN "raise"
    ELSE IF ~(Twice(s) <= Twice(e)) THEN "false"
    ELSE "true"

\* The outcome of the chained comparison lo <= start_u <= end_u <= hi:
\* Python evaluates it left to right and stops at the first false link, and
\* comparing a number with a non-number raises TypeError.
ChainCompare(lo, s, e, hi) ==
    IF s.t = "nonnum" THEN "raise"
    ELSE IF ~(2 * lo <= Twice(s)) THEN "false"
    ELSE IF e.t = "nonnum" THEN "raise"
    ELSE IF ~(Twice(s) <= Twice(e)) THEN "false"
    ELSE IF ~(Twice(e) <= 2 * hi) THEN "false"
    ELSE "true"

\* a type passed on as the oracle gave it
CoerceType_AsGiven(t) == t

\* if seg_type not in ("narrative", "qa"): seg_type = "narrative"
CoerceType(t) == IF t \in {"narrative", "qa"} THEN t ELSE "narrative"

\* a clamp without its upper end
ClampConfidence_NoUpper(c) == Max(0, c)

\* min(1.0, max(0.0, float(x)))
ClampConfidence(c) == Min(10, Max(0, c))

\* One iteration of the loop of _validate_segments: the segment is kept,
\* dropped (continue) or the iteration raises.
ValidateSegment(seg, max_u) ==
    IF seg.shape # "dict" THEN [res |-> "raise"]
    ELSE LET start_u == Get(seg.start_u, 0)
             end_u == Get(seg.end_u, 0)
             cmp == ChainCompare(0, start_u, end_u, max_u)
             conf == Get(seg.confidence, DefaultConfidence)
         IN IF cmp = "raise" THEN [res |-> "raise"]
            ELSE IF cmp = "false" THEN [res |-> "drop"]
            ELSE IF conf.t = "nonnum" THEN [res |-> "raise"]
            ELSE IF start_u.t = "half" \/ end_u.t = "half" THEN [res |-> "raise"]
            ELSE [res |-> "keep",
                  unit |-> [type |-> CoerceType(seg.type),
                            start_u |-> start_u.n,
                            end_u |-> end_u.n,
                            confidence |-> ClampConfidence(conf.n),
                            notes |-> NoNotes]]

\* One iteration of the loop of _validate_blocks.
ValidateBlock(block, qa_start, qa_end) ==
    IF block.shape # "dict" THEN [res |-> "raise"]
    ELSE LET start_u == Get(block.start_u, qa_start)
             end_u == Get(block.end_u, qa_end)
             cmp == ChainCompare(qa_start, start_u, end_u, qa_end)
             conf == Get(block.confidence, DefaultConfidence)
         IN IF cmp = "raise" THEN [res |-> "raise"]
            ELSE IF cmp = "false" THEN [res |-> "drop"]
            ELSE IF conf.t = "nonnum" THEN [res |-> "raise"]
            ELSE IF start_u.t = "half" \/ end_u.t = "half" THEN [res |-> "raise"]
            ELSE IF block.questions.t = "badlist" THEN [res |-> "raise"]
            ELSE [res |-> "keep",
                  unit |-> [start_u |-> start_u.n,
                            end_u |-> end_u.n,
                            questions |-> IF block.questions.t = "list"
                                          THEN block.questions.v ELSE <<>>,
                            answer_summary |-> "",
                            confidence |-> ClampConfidence(conf.n)]]

\* a fallback that stops at the first utterance
FallbackSegment_FirstOnly(max_u) ==
    [type |-> "narrative", start_u |-> 0, end_u |-> 0,
     confidence |-> FallbackConfidence,
     notes |-> "Fallback: entire transcript as narrative"]

FallbackSegment(max_u) ==
    [type |-> "narrative", start_u |-> 0, end_u |-> max_u,
     confidence |-> FallbackConfidence,
     notes |-> "Fallback: entire transcript as narrative"]

\* a fallback block that starts at the first utterance of the transcript
FallbackBlock_FromZero(qa_start, qa_end) ==
    [start_u |-> 0, end_u |-> qa_end, questions |-> <<>>,
     answer_summary |-> "Fallback: entire Q&A region as one block",
     confidence |-> FallbackConfidence]

FallbackBlock(qa_start, qa_end) ==
    [start_u |-> qa_start, end_u |-> qa_end, questions |-> <<>>,
     answer_summary |-> "Fallback: entire Q&A region as one block",
     confidence |-> FallbackConfidence]

\* if not segments: segments = [fallback]
RepairSegments(validated_list, max_u) ==
    IF validated_list = <<>> THEN <<FallbackSegment(max_u)>> ELSE validated_list

RepairBlocks(validated_list, qa_start, qa_end) ==
    IF validated_list = <<>> THEN <<FallbackBlock(qa_start, qa_end)>> ELSE validated_list

\* a unit put in front of the list
KeepUnit_InFront(list, unit) == <<unit>> \o list

\* segments.append(BoundarySegment(...)) / blocks.append(QABlock(...))
KeepUnit(list, unit) == Append(list, unit)

\* the loop of _validate_segments from some raw item on, acc being the list built so far
RECURSIVE ValidateSegmentsFrom(_, _, _)
ValidateSegmentsFrom(raw_segments, max_u, acc) ==
    IF raw_segments = <<>> THEN [res |-> "list", list |-> acc]
    ELSE LET r == ValidateSegment(Head(raw_segments), max_u)
         IN IF r.res = "raise" THEN [res |-> "raise", list |-> <<>>]
            ELSE ValidateSegmentsFrom(Tail(raw_segments), max_u,
                                      IF r.res = "keep" THEN KeepUnit(acc, r.unit) ELSE acc)

\* _validate_segments(raw_segments, max_u)
ValidateSegments(raw_segments, max_u) == ValidateSegmentsFrom(raw_segments, max_u, <<>>)

\* the loop of _validate_blocks from some raw item on
RECURSIVE ValidateBlocksFrom(_, _, _, _)
ValidateBlocksFrom(raw_blocks, qa_start, qa_end, acc) ==
    IF raw_blocks = <<>> THEN [res |-> "list", list |-> acc]
    ELSE LET r == ValidateBlock(Head(raw_blocks), qa_start, qa_end)
         IN IF r.res = "raise" THEN [res |-> "raise", list |-> <<>>]
            ELSE ValidateBlocksFrom(Tail(raw_blocks), qa_start, qa_end,
                                    IF r.res = "keep" THEN KeepUnit(acc, r.unit) ELSE acc)

\* _validate_blocks(raw_blocks, qa_start, qa_end)
ValidateBlocks(raw_blocks, qa_start, qa_end) ==
    ValidateBlocksFrom(raw_blocks, qa_start, qa_end, <<>>)

\* ---------------------------------------------------------------- utterances
RECURSIVE MaxOfSet(_)
MaxOfSet(S) == LET x == CHOOSE y \in S : TRUE
               IN IF S = {x} THEN x ELSE Max(x, MaxOfSet(S \ {x}))

\* max(u.u for u in utterances)
MaxU(utts) == MaxOfSet({utts[p].u : p \in 1..Len(utts)})

\* _get_utterance_by_index: the first utterance with u == idx, or none
HasUtterance(utts, idx) == \E p \in 1..Len(utts) : utts[p].u = idx

\* the last utterance with the index instead of the first
FirstPos_Last(utts, idx) == CHOOSE p \in 1..Len(utts) :
                               /\ utts[p].u = idx
                               /\ \A q \in (p + 1)..Len(utts) : utts[q].u # idx

FirstPos(utts, idx) == CHOOSE p \in 1..Len(utts) :
                          /\ utts[p].u = idx
                          /\ \A q \in 1..(p - 1) : utts[q].u # idx

\* start_utt.start if start_utt else 0.0
StartTime(utts, idx) == IF HasUtterance(utts, idx) THEN utts[FirstPos(utts, idx)].start ELSE 0
EndTime(utts, idx) == IF HasUtterance(utts, idx) THEN utts[FirstPos(utts, idx)].end ELSE 0

\* a slice that takes every utterance
InRange_All(utts, lo, hi) == utts

\* [u for u in utterances if lo <= u.u <= hi]
RECURSIVE InRange(_, _, _)
InRange(utts, lo, hi) ==
    IF utts = <<>> THEN <<>>
    ELSE IF lo <= Head(utts).u /\ Head(utts).u <= hi
         THEN <<Head(utts)>> \o InRange(Tail(utts), lo, hi)
         ELSE InRange(Tail(utts), lo, hi)

\* " ".join(texts)
RECURSIVE JoinTexts(_)
JoinTexts(utts) ==
    IF utts = <<>> THEN ""
    ELSE IF Len(utts) = 1 THEN Head(utts).text
    ELSE Head(utts).text \o " " \o JoinTexts(Tail(utts))

\* the text of the whole transcript
AssembleText_Whole(utts, start_u, end_u) == JoinTexts(utts)

AssembleText(utts, start_u, end_u) == JoinTexts(InRange(utts, start_u, end_u))

\* _extract_utterances_from_deepgram: u is the 0-based position in the array
\* indices counted from one
ExtractUtterances_FromOne(doc) ==
    [p \in 1..Len(doc.utterances) |->
        [u |-> p,
         start |-> doc.utterances[p].start,
         end |-> doc.utterances[p].end,
         text |-> doc.utterances[p].transcript]]

ExtractUtterances(doc) ==
    [p \in 1..Len(doc.utterances) |->
        [u |-> p - 1,
         start |-> doc.utterances[p].start,
         end |-> doc.utterances[p].end,
         text |-> doc.utterances[p].transcript]]

\* -------------------------------------------------------------------- inputs
Word(p) == "w" \o DecStr(p)

\* A transcript: any sequence of indices; the utterance at position p is
\* spoken from second p - 1 to second p.
IndexSeqs == UNION {[1..n -> 0..MaxIdx] : n \in 0..MaxUtts}
MkUtterances(idx) ==
    [p \in 1..Len(idx) |-> [u |-> idx[p], start |-> p - 1, end |-> p, text |-> Word(p)]]
Transcripts == {MkUtterances(idx) : idx \in IndexSeqs}

QARanges == [start_u : 0..MaxIdx, end_u : 0..MaxIdx]

\* the id of a raw record: an opaque string, or a number counting down
IdSchemes == {"opaque", "countdown"}
DeepgramDocs ==
    {[shape |-> "ok",
      utterances |-> [p \in 1..n |->
                         [id |-> IF k = "opaque" THEN "uuid" ELSE DecStr(n - p),
                          start |-> p - 1, end |-> p, transcript |-> Word(p)]]] :
        n \in 0..MaxUtts, k \in IdSchemes}
    \cup {[shape |-> sh, utterances |-> <<>>] : sh \in {"no_results", "results_not_dict"}}

RawIndexValues == {Num(n) : n \in (-1)..(MaxIdx + 1)} \cup {Absent, NonNum, Half(0)}
RawTypes == {"narrative", "qa", "other", TypeAbsent}
RawConfidences == {Absent, NonNum}
RawQuestions == {[t |-> "absent", v |-> <<>>], [t |-> "notlist", v |-> <<>>],
                 [t |-> "badlist", v |-> <<>>]}

RawSegments ==
    [shape : {"dict"}, start_u : RawIndexValues, end_u : RawIndexValues,
     type : RawTypes, confidence : RawConfidences]
    \cup {[shape |-> "other", start_u |-> Absent, end_u |-> Absent,
           type |-> TypeAbsent, confidence |-> Absent]}

RawBlocks ==
    [shape : {"dict"}, start_u : RawIndexValues, end_u : RawIndexValues,
     confidence : RawConfidences, questions : RawQuestions]
    \cup {[shape |-> "other", start_u |-> Absent, end_u |-> Absent,
           confidence |-> Absent, questions |-> [t |-> "absent", v |-> <<>>]]}

\* What one iteration of a validator's loop can come to, over every raw item the
\* oracle may have put in its list, for each bound the handlers can pass.
MaxBound == Max(MaxIdx, MaxUtts - 1)
SegmentOutcomes ==
    [m \in 0..MaxBound |-> {ValidateSegment(seg, m) : seg \in RawSegments}]
BlockOutcomes ==
    [lo \in 0..MaxBound |-> [hi \in 0..MaxBound |->
        {ValidateBlock(block, lo, hi) : block \in RawBlocks}]]

\* one invocation of the oracle: it throws, answers with text that is not
\* JSON, or answers with JSON
OracleOutcomes == {"transport_error", "non_json", "json"}

\* --------------------------------------------------------------------- state
VARIABLES
    qa_boundary,    \* table qa_boundary: rows keyed by (video_id, seg_id)
    qa_block,       \* table qa_block: rows keyed by (video_id, block_id)
    qa_export,      \* table qa_export: video_id -> export document
    export_file,    \* EXPORTS_DIR/<video_id>.json
    pc,             \* position of the request being served
    endpoint, video_id, utterances,     \* the request
    b_utterances, qa_range,             \* the BlocksRequest being served
    attempts,       \* attempts of the _call_openai_json call in progress (or exhausted)
    last_outcome,   \* outcome of the latest of them
    raw_count,      \* raw items of the oracle's list consumed so far
    validated,      \* the list built by the validator's loop
    segments,       \* Pass 1 result
    blocks,         \* Pass 2 result
    i,              \* enumerate() index of the persistence loop
    seg_pos,        \* position of segment_full's loop over the segments
    all_blocks, block_counter,
    status, response,
    pre,            \* the tables and files when the request arrived
    n_validate, n_persist,   \* validator runs / delete-then-insert runs of the current pass call
    p2log,          \* the Pass 2 calls segment_full made: segment position, outcome, blocks
    opinion_detection,  \* table opinion_detection: chunk_id -> row
    d_service,      \* which service serves the detection request
    d_endpoint,     \* /detect-opinion or /detect-opinion/batch
    d_pc,           \* position of the detection request being served
    d_items,        \* req.items (the one request of /detect-opinion)
    d_idx,          \* position of the loop "for item in req.items"
    d_attempts,     \* attempts of the oracle call of the current item
    d_result,       \* what _detect_single returned for the current item
    d_results,      \* results
    d_response,     \* the response
    d_status,       \* how the detection request ended
    d_log,          \* per item served: what the oracle call came to
    it_kind, it_raw, it_lo, it_hi,   \* a raw item and the bounds handed to a validator
    it_out,         \* what the validator's iteration came to
    it_result,      \* what the pass makes of the oracle list under study
    r_pc, r_segs, r_i   \* two boundary-pass requests served at once: position, result, loop index

store == <<qa_boundary, qa_block, qa_export, export_file>>
request == <<endpoint, video_id, utterances>>
blocks_request == <<b_utterances, qa_range>>
call_state == <<attempts, last_outcome, raw_count, validated, n_validate, n_persist>>
full_state == <<seg_pos, all_blocks, block_counter, p2log>>
segmentation == <<qa_boundary, qa_block, qa_export, export_file, pc, endpoint, video_id,
                  utterances, b_utterances, qa_range, attempts, last_outcome, raw_count, validated,
                  segments, blocks, i, seg_pos, all_blocks, block_counter, status, response, pre, n_validate, n_persist, p2log>>
detection == <<opinion_detection, d_service, d_endpoint, d_pc, d_items, d_idx, d_attempts,
               d_result, d_results, d_response, d_status, d_log>>
item_check == <<it_kind, it_raw, it_lo, it_hi, it_out, it_result>>
race == <<r_pc, r_segs, r_i>>
serving == <<pc, endpoint, video_id, utterances, b_utterances, qa_range, attempts, last_outcome,
             raw_count, validated, segments, blocks, i, seg_pos, all_blocks, block_counter,
             status, response, pre, n_validate, n_persist, p2log>>
elsewhere == <<detection, item_check, race>>
vars == <<segmentation, detection, item_check, race>>

NoExport == [video_id |-> "<none>", boundary_segments |-> <<>>, qa_blocks |-> <<>>]
NoResponse == [segments |-> <<>>, qa_blocks |-> <<>>]
NoRange == [start_u |-> 0, end_u |-> 0]

NoResult == [has_opinion |-> FALSE, targets |-> <<>>, opinion_spans |-> <<>>,
             polarity |-> "none", confidence |-> 0]
NoRow == [chunk_id |-> "<none>"]
NoDetectResponse == [results |-> <<>>, total_with_opinions |-> 0]
NoItem == [shape |-> "none"]

\* the two requests of the race
Runs == {1, 2}

IsFull == endpoint \in {"run", "from_deepgram"}

\* --------------------------------------------------------------- persistence
\* a delete without its WHERE clause
DeleteRows_All(table, v) == {}

\* a delete that removes nothing
DeleteRows_Nothing(table, v) == table

\* DELETE FROM qa_boundary / qa_block WHERE video_id = ?
DeleteRows(table, v) == {r \in table : r.video_id # v}

\* INSERT ... ON CONFLICT(video_id, seg_id) DO UPDATE
UpsertBoundaryRow(table, row) ==
    {r \in table : ~(r.video_id = row.video_id /\ r.seg_id = row.seg_id)} \cup {row}

\* INSERT ... ON CONFLICT(video_id, block_id) DO UPDATE
UpsertBlockRow(table, row) ==
    {r \in table : ~(r.video_id = row.video_id /\ r.block_id = row.block_id)} \cup {row}

\* SELECT ... WHERE video_id = ?
GetBoundaries(v) == {r \in qa_boundary : r.video_id = v}
GetBlocks(v) == {r \in qa_block : r.video_id = v}

\* ------------------------------------------------------------ request arrival
\* a handler that forgets the check
Rejected_Never(utts) == FALSE

\* utterances: list[Utterance] = Field(..., min_length=1) and
\* "if not req.utterances: raise HTTPException(status_code=400, ...)"
Rejected(utts) == utts = <<>>

\* A request arrives at the idle service.
Arrive(ep, v, utts, rejected, first_pc) ==
    /\ pc = "idle"
    /\ endpoint' = ep
    /\ video_id' = v
    /\ utterances' = utts
    /\ attempts' = 0
    /\ last_outcome' = "none"
    /\ raw_count' = 0
    /\ validated' = <<>>
    /\ segments' = <<>>
    /\ blocks' = <<>>
    /\ i' = 0
    /\ seg_pos' = 0
    /\ all_blocks' = <<>>
    /\ block_counter' = 0
    /\ response' = NoResponse
    /\ pre' = [b |-> qa_boundary, k |-> qa_block, e |-> qa_export, f |-> export_file]
    /\ n_validate' = 0
    /\ n_persist' = 0
    /\ p2log' = <<>>
    /\ status' = IF rejected THEN "client_error" ELSE "none"
    /\ pc' = IF rejected THEN "done" ELSE first_pc
    /\ UNCHANGED <<store, elsewhere>>

\* POST /segment/qa/boundaries
PostBoundaries ==
    \E v \in Videos, utts \in Transcripts :
        /\ Arrive("boundaries", v, utts, Rejected(utts), "p1_oracle")
        /\ b_utterances' = <<>>
        /\ qa_range' = NoRange

\* POST /segment/qa/blocks
PostBlocks ==
    \E v \in Videos, utts \in Transcripts, range \in QARanges :
        /\ Arrive("blocks", v, utts, Rejected(utts), "p2_oracle")
        /\ b_utterances' = utts
        /\ qa_range' = range

\* POST /segment/qa/run
PostRun ==
    \E v \in Videos, utts \in Transcripts :
        /\ Arrive("run", v, utts, Rejected(utts), "p1_oracle")
        /\ b_utterances' = <<>>
        /\ qa_range' = NoRange

\* POST /segment/qa/from-deepgram and /segment/qa/from-deepgram-file
PostFromDeepgram ==
    \E v \in Videos, doc \in DeepgramDocs :
        LET bad == doc.shape # "ok" \/ doc.utterances = <<>>
        IN /\ Arrive("from_deepgram", v, IF bad THEN <<>> ELSE ExtractUtterances(doc),
                     bad, "p1_oracle")
           /\ b_utterances' = <<>>
           /\ qa_range' = NoRange

\* ------------------------------------------------------------ oracle with retry
\* exhausted retries answered as if the oracle had returned an empty object
AttemptResult_Swallowed(outcome, made) ==
    IF outcome = "json" THEN "parsed"
    ELSE IF made < MaxAttempts THEN "retry"
    ELSE "parsed"

\* one attempt more than stop_after_attempt allows
AttemptResult_OneMore(outcome, made) ==
    IF outcome = "json" THEN "parsed"
    ELSE IF made <= MaxAttempts THEN "retry"
    ELSE "exhausted"

\* One attempt of _call_openai_json under @retry(stop_after_attempt(3), reraise=True):
\* returns what the attempt leads to: "parsed", "retry" or "exhausted".
AttemptResult(outcome, made) ==
    IF outcome = "json" THEN "parsed"
    ELSE IF made < MaxAttempts THEN "retry"
    ELSE "exhausted"

\* a full pipeline without the try/except around its Pass 2 call
Pass2Caught_Never == FALSE

\* An exception leaves a pass handler: a direct call and segment_full's Pass 1
\* answer with an error, segment_full's try/except around Pass 2 logs it and
\* goes on with the next segment.
Pass2Caught == IsFull

\* ----------------------------------------------------------------- Pass 1
\* segment_boundaries: one oracle attempt
P1Oracle ==
    /\ pc = "p1_oracle"
    /\ \E outcome \in OracleOutcomes :
        LET res == AttemptResult(outcome, attempts + 1)
        IN /\ attempts' = IF res = "parsed" THEN 0 ELSE attempts + 1
           /\ last_outcome' = outcome
           /\ pc' = CASE res = "parsed" -> "p1_validate"
                      [] res = "retry" -> "p1_oracle"
                      [] OTHER -> "done"
           /\ status' = IF res = "exhausted" THEN "error502" ELSE status
           /\ n_validate' = IF res = "parsed" THEN n_validate + 1 ELSE n_validate
    /\ UNCHANGED <<elsewhere, store, request, blocks_request, raw_count, validated, segments,
                   blocks, i, full_state, response, pre, n_persist>>

\* _validate_segments: one iteration of the loop over the oracle's segments
P1ValidateItem ==
    /\ pc = "p1_validate"
    /\ raw_count < MaxSegs
    /\ \E r \in SegmentOutcomes[MaxU(utterances)] :
           /\ raw_count' = raw_count + 1
           /\ validated' = IF r.res = "keep" THEN KeepUnit(validated, r.unit) ELSE validated
           /\ pc' = IF r.res = "raise" THEN "done" ELSE "p1_validate"
           /\ status' = IF r.res = "raise" THEN "error500" ELSE status
    /\ UNCHANGED <<elsewhere, store, request, blocks_request, attempts, last_outcome, segments,
                   blocks, i, full_state, response, pre, n_validate, n_persist>>

\* _validate_segments returns; the fallback replaces an empty list
P1ValidateEnd ==
    /\ pc = "p1_validate"
    /\ segments' = RepairSegments(validated, MaxU(utterances))
    /\ pc' = "p1_delete"
    /\ UNCHANGED <<elsewhere, store, request, blocks_request, call_state, blocks, i, full_state,
                   status, response, pre>>

\* delete_boundaries(req.video_id)
P1Delete ==
    /\ pc = "p1_delete"
    /\ qa_boundary' = DeleteRows(qa_boundary, video_id)
    /\ i' = 0
    /\ n_persist' = n_persist + 1
    /\ pc' = "p1_upsert"
    /\ UNCHANGED <<elsewhere, qa_block, qa_export, export_file, request, blocks_request, attempts,
                   last_outcome, raw_count, validated, n_validate, segments, blocks, full_state,
                   status, response, pre>>

BoundaryRow(v, utts, idx, seg) ==
    [video_id |-> v, seg_id |-> SegId(idx), type |-> seg.type,
     start_u |-> seg.start_u, end_u |-> seg.end_u,
     start |-> StartTime(utts, seg.start_u), end |-> EndTime(utts, seg.end_u),
     confidence |-> seg.confidence, notes |-> seg.notes]

\* one iteration of "for i, seg in enumerate(segments): upsert_boundary(...)"
P1Upsert ==
    /\ pc = "p1_upsert"
    /\ i < Len(segments)
    /\ qa_boundary' = UpsertBoundaryRow(qa_boundary,
                          BoundaryRow(video_id, utterances, i, segments[i + 1]))
    /\ i' = i + 1
    /\ UNCHANGED <<elsewhere, qa_block, qa_export, export_file, pc, request, blocks_request,
                   call_state, segments, blocks, full_state, status, response, pre>>

\* segment_boundaries returns: to the client, or to segment_full
P1Return ==
    /\ pc = "p1_upsert"
    /\ i = Len(segments)
    /\ IF IsFull
       THEN /\ pc' = "full_loop"
            /\ seg_pos' = 1
            /\ all_blocks' = <<>>
            /\ block_counter' = 0
            /\ UNCHANGED <<status, response>>
       ELSE /\ pc' = "done"
            /\ status' = "ok"
            /\ response' = [segments |-> segments, qa_blocks |-> <<>>]
            /\ UNCHANGED <<seg_pos, all_blocks, block_counter>>
    /\ UNCHANGED <<elsewhere, store, request, blocks_request, call_state, segments, blocks, i,
                   p2log, pre>>

\* ----------------------------------------------------------------- Pass 2
\* an except branch that throws away what earlier segments produced
SkipFailedSegment_Abandon ==
    /\ p2log' = Append(p2log, [pos |-> seg_pos, ok |-> FALSE, blocks |-> <<>>,
                            qa_range |-> qa_range, utterances |-> b_utterances])
    /\ seg_pos' = seg_pos + 1
    /\ pc' = "full_loop"
    /\ all_blocks' = <<>>
    /\ block_counter' = 0
    /\ UNCHANGED status

\* what segment_full does when segment_blocks raised: log, next segment
SkipFailedSegment ==
    /\ p2log' = Append(p2log, [pos |-> seg_pos, ok |-> FALSE, blocks |-> <<>>,
                            qa_range |-> qa_range, utterances |-> b_utterances])
    /\ seg_pos' = seg_pos + 1
    /\ pc' = "full_loop"
    /\ UNCHANGED <<status, all_blocks, block_counter>>

\* segment_blocks: one oracle attempt
P2Oracle ==
    /\ pc = "p2_oracle"
    /\ \E outcome \in OracleOutcomes :
        LET res == AttemptResult(outcome, attempts + 1)
        IN /\ attempts' = IF res = "parsed" THEN 0 ELSE attempts + 1
           /\ last_outcome' = outcome
           /\ n_validate' = IF res = "parsed" THEN n_validate + 1 ELSE n_validate
           /\ IF res = "exhausted" /\ Pass2Caught
              THEN SkipFailedSegment
              ELSE /\ pc' = CASE res = "parsed" -> "p2_validate"
                              [] res = "retry" -> "p2_oracle"
                              [] OTHER -> "done"
                   /\ status' = IF res = "exhausted" THEN "error502" ELSE status
                   /\ UNCHANGED full_state
    /\ UNCHANGED <<elsewhere, store, request, blocks_request, raw_count, validated, segments,
                   blocks, i, response, pre, n_persist>>

\* _validate_blocks: one iteration of the loop over the oracle's blocks
P2ValidateItem ==
    /\ pc = "p2_validate"
    /\ raw_count < MaxBlocks
    /\ \E r \in BlockOutcomes[qa_range.start_u][qa_range.end_u] :
           /\ raw_count' = raw_count + 1
           /\ validated' = IF r.res = "keep" THEN KeepUnit(validated, r.unit) ELSE validated
           /\ IF r.res = "raise" /\ Pass2Caught
              THEN SkipFailedSegment
              ELSE /\ pc' = IF r.res = "raise" THEN "done" ELSE "p2_validate"
                   /\ status' = IF r.res = "raise" THEN "error500" ELSE status
                   /\ UNCHANGED full_state
    /\ UNCHANGED <<elsewhere, store, request, blocks_request, attempts, last_outcome, segments,
                   blocks, i, response, pre, n_validate, n_persist>>

\* _validate_blocks returns; the fallback replaces an empty list
P2ValidateEnd ==
    /\ pc = "p2_validate"
    /\ blocks' = RepairBlocks(validated, qa_range.start_u, qa_range.end_u)
    /\ pc' = "p2_delete"
    /\ UNCHANGED <<elsewhere, store, request, blocks_request, call_state, segments, i, full_state,
                   status, response, pre>>

\* delete_blocks(req.video_id)
P2Delete ==
    /\ pc = "p2_delete"
    /\ qa_block' = DeleteRows(qa_block, video_id)
    /\ i' = 0
    /\ n_persist' = n_persist + 1
    /\ pc' = "p2_upsert"
    /\ UNCHANGED <<elsewhere, qa_boundary, qa_export, export_file, request, blocks_request,
                   attempts, last_outcome, raw_count, validated, n_validate, segments, blocks,
                   full_state, status, response, pre>>

BlockRow(v, utts, idx, block) ==
    [video_id |-> v, block_id |-> BlockId(idx),
     start_u |-> block.start_u, end_u |-> block.end_u,
     start |-> StartTime(utts, block.start_u), end |-> EndTime(utts, block.end_u),
     questions |-> block.questions, answer_summary |-> block.answer_summary,
     confidence |-> block.confidence]

\* one iteration of "for i, block in enumerate(blocks): upsert_block(...)"
P2Upsert ==
    /\ pc = "p2_upsert"
    /\ i < Len(blocks)
    /\ qa_block' = UpsertBlockRow(qa_block, BlockRow(video_id, b_utterances, i, blocks[i + 1]))
    /\ i' = i + 1
    /\ UNCHANGED <<elsewhere, qa_boundary, qa_export, export_file, pc, request, blocks_request,
                   call_state, segments, blocks, full_state, status, response, pre>>

\* StoredQABlock(...) of segment_full's inner loop, for the block at list position j
StoredBlock(utts, counter, block) ==
    [block_id |-> BlockId(counter),
     start_u |-> block.start_u, end_u |-> block.end_u,
     start |-> StartTime(utts, block.start_u), end |-> EndTime(utts, block.end_u),
     questions |-> block.questions, answer_summary |-> block.answer_summary,
     confidence |-> block.confidence,
     text |-> AssembleText(utts, block.start_u, block.end_u)]

\* blocks appended under the numbers Pass 2 gave them
AppendBlocks_Local(acc, utts, counter, new_blocks) ==
    acc \o [j \in 1..Len(new_blocks) |-> StoredBlock(utts, j - 1, new_blocks[j])]

\* "for block in blocks_resp.qa_blocks: all_blocks.append(...); block_counter += 1"
AppendBlocks(acc, utts, counter, new_blocks) ==
    acc \o [j \in 1..Len(new_blocks) |-> StoredBlock(utts, counter + j - 1, new_blocks[j])]

\* segment_blocks returns: to the client, or to segment_full, which renumbers
\* the blocks and appends them to all_blocks
P2Return ==
    /\ pc = "p2_upsert"
    /\ i = Len(blocks)
    /\ IF IsFull
       THEN /\ all_blocks' = AppendBlocks(all_blocks, utterances, block_counter, blocks)
            /\ block_counter' = block_counter + Len(blocks)
            /\ p2log' = Append(p2log, [pos |-> seg_pos, ok |-> TRUE, blocks |-> blocks,
                                      qa_range |-> qa_range, utterances |-> b_utterances])
            /\ seg_pos' = seg_pos + 1
            /\ pc' = "full_loop"
            /\ UNCHANGED <<status, response>>
       ELSE /\ pc' = "done"
            /\ status' = "ok"
            /\ response' = [segments |-> <<>>, qa_blocks |-> blocks]
            /\ UNCHANGED full_state
    /\ UNCHANGED <<elsewhere, store, request, blocks_request, call_state, segments, blocks, i,
                   pre>>

\* ------------------------------------------------------------ full pipeline
\* segment_full's loop: a narrative segment, or a qa segment without utterances, is skipped
FullSkipSegment ==
    /\ pc = "full_loop"
    /\ seg_pos <= Len(segments)
    /\ LET seg == segments[seg_pos]
       IN seg.type # "qa" \/ InRange(utterances, seg.start_u, seg.end_u) = <<>>
    /\ seg_pos' = seg_pos + 1
    /\ UNCHANGED <<elsewhere, store, pc, request, blocks_request, call_state, segments, blocks, i,
                   all_blocks, block_counter, p2log, status, response, pre>>

\* segment_full's loop: segment_blocks is called for a qa segment
FullCallBlocks ==
    /\ pc = "full_loop"
    /\ seg_pos <= Len(segments)
    /\ LET seg == segments[seg_pos]
           qa_utterances == InRange(utterances, seg.start_u, seg.end_u)
       IN /\ seg.type = "qa"
          /\ qa_utterances # <<>>
          /\ b_utterances' = qa_utterances
          /\ qa_range' = [start_u |-> seg.start_u, end_u |-> seg.end_u]
    /\ attempts' = 0
    /\ last_outcome' = "none"
    /\ raw_count' = 0
    /\ validated' = <<>>
    /\ n_validate' = 0
    /\ n_persist' = 0
    /\ blocks' = <<>>
    /\ i' = 0
    /\ pc' = "p2_oracle"
    /\ UNCHANGED <<elsewhere, store, request, segments, full_state, status, response, pre>>

\* stored_boundaries of segment_full
StoredBoundaries(utts, segs) ==
    [j \in 1..Len(segs) |->
        [seg_id |-> SegId(j - 1), type |-> segs[j].type,
         start_u |-> segs[j].start_u, end_u |-> segs[j].end_u,
         start |-> StartTime(utts, segs[j].start_u), end |-> EndTime(utts, segs[j].end_u),
         confidence |-> segs[j].confidence, notes |-> segs[j].notes]]

\* an export document without the blocks
ExportData_NoBlocks(v, boundaries, stored_blocks) ==
    [video_id |-> v, boundary_segments |-> boundaries, qa_blocks |-> <<>>]

\* export_data of _build_and_save_export
ExportData(v, boundaries, stored_blocks) ==
    [video_id |-> v, boundary_segments |-> boundaries, qa_blocks |-> stored_blocks]

\* _build_and_save_export: upsert_export(video_id, export_json, now)
FullSaveExport ==
    /\ pc = "full_loop"
    /\ seg_pos > Len(segments)
    /\ qa_export' = [qa_export EXCEPT ![video_id] =
                        ExportData(video_id, StoredBoundaries(utterances, segments), all_blocks)]
    /\ pc' = "full_file"
    /\ UNCHANGED <<elsewhere, qa_boundary, qa_block, export_file, request, blocks_request,
                   call_state, segments, blocks, i, full_state, status, response, pre>>

\* _build_and_save_export: export_path.write_text(export_json); segment_full returns
FullWriteFile ==
    /\ pc = "full_file"
    /\ export_file' = [export_file EXCEPT ![video_id] =
                          ExportData(video_id, StoredBoundaries(utterances, segments), all_blocks)]
    /\ response' = [segments |-> StoredBoundaries(utterances, segments),
                    qa_blocks |-> all_blocks]
    /\ status' = "ok"
    /\ pc' = "done"
    /\ UNCHANGED <<elsewhere, qa_boundary, qa_block, qa_export, request, blocks_request,
                   call_state, segments, blocks, i, full_state, pre>>

\* ------------------------------------------------------------ opinion detection
\* POST /detect-opinion and /detect-opinion/batch, as served by llm-analyzer and
\* by opinion-detector.  The text of a chunk, its times and its opinion spans
\* are passed through and play no part in what is stored, so only the spans are kept.
MaxItems == 2
MaxTargets == 2

ChunkIds == {"c1", "c2"}
Names == {"ann", "bob", "zed"}
Services == {"llm-analyzer", "opinion-detector"}
PersonLists == {<<>>, <<"ann", "bob">>}
DetectItems == [chunk_id : ChunkIds, persons : PersonLists]
Batches == UNION {[1..n -> DetectItems] : n \in 0..MaxItems}
TargetLists == UNION {[1..n -> Names] : n \in 0..MaxTargets}

\* a parsed oracle answer that matches DetectResponse
DetectAnswers ==
    {[has_opinion |-> TRUE, targets |-> t, opinion_spans |-> <<"quote">>,
      polarity |-> "negative", confidence |-> 8] : t \in TargetLists}
    \cup {[has_opinion |-> FALSE, targets |-> <<>>, opinion_spans |-> <<>>,
           polarity |-> "unclear", confidence |-> 9]}

\* one invocation of the oracle: it throws, answers with text that is not JSON,
\* with JSON that does not match DetectResponse, or with JSON that does
DetectOutcomes ==
    {[kind |-> k, answer |-> NoResult] : k \in {"transport_error", "non_json", "mismatch"}}
    \cup {[kind |-> "json", answer |-> a] : a \in DetectAnswers}

\* a default that claims full confidence whatever happened
SafeDefault_Confident(conf) ==
    [has_opinion |-> FALSE, targets |-> <<>>, opinion_spans |-> <<>>,
     polarity |-> "unclear", confidence |-> 10]

\* DetectResponse(has_opinion=False, targets=[], opinion_spans=[], polarity="unclear", confidence=...)
SafeDefault(conf) ==
    [has_opinion |-> FALSE, targets |-> <<>>, opinion_spans |-> <<>>,
     polarity |-> "unclear", confidence |-> conf]

\* t in req.persons
InList(x, list) == \E k \in 1..Len(list) : list[k] = x

\* [t for t in result.targets if t in req.persons]
RECURSIVE FilterTargets(_, _)
FilterTargets(targets, persons) ==
    IF targets = <<>> THEN <<>>
    ELSE (IF InList(Head(targets), persons) THEN <<Head(targets)>> ELSE <<>>)
         \o FilterTargets(Tail(targets), persons)

\* a result returned as the oracle gave it
Whitelisted_AsGiven(answer, persons) == answer

\* the result after "if invalid_targets: result.targets = [...]"
Whitelisted(answer, persons) ==
    [answer EXCEPT !.targets = FilterTargets(answer.targets, persons)]

\* What one oracle attempt of _detect_single leads to: "parsed", "retry" or
\* "failed" (the except branch).  llm-analyzer builds DetectResponse(**data)
\* after _call_openai_json has returned, opinion-detector inside the retried
\* _call_openai.
DetectAttempt(service, kind, made) ==
    IF kind = "mismatch" /\ service = "llm-analyzer" THEN "failed"
    ELSE IF AttemptResult(kind, made) = "exhausted" THEN "failed"
    ELSE AttemptResult(kind, made)

\* a row that forgets the result
DetectionRow_Blank(item, result) ==
    [chunk_id |-> item.chunk_id, persons |-> item.persons,
     has_opinion |-> FALSE, targets |-> <<>>,
     opinion_spans |-> <<>>, polarity |-> "unclear",
     confidence |-> 0]

\* the row upsert_detection writes
DetectionRow(item, result) ==
    [chunk_id |-> item.chunk_id, persons |-> item.persons,
     has_opinion |-> result.has_opinion, targets |-> result.targets,
     opinion_spans |-> result.opinion_spans, polarity |-> result.polarity,
     confidence |-> result.confidence]

\* sum(1 for r in results if r.has_opinion)
CountWithOpinions(results) == Cardinality({k \in 1..Len(results) : results[k].has_opinion})

\* A detection request arrives at the idle service.
ArriveDetect(svc, items) ==
    /\ d_pc = "idle"
    /\ d_service' = svc
    /\ d_items' = items
    /\ d_idx' = IF items = <<>> THEN 0 ELSE 1
    /\ d_attempts' = 0
    /\ d_result' = NoResult
    /\ d_results' = <<>>
    /\ d_response' = NoDetectResponse
    /\ d_log' = <<>>
    /\ d_status' = IF items = <<>> THEN "client_error" ELSE "none"
    /\ d_pc' = IF items = <<>> THEN "done" ELSE "d_item"
    /\ UNCHANGED <<opinion_detection, segmentation, item_check, race>>

\* POST /detect-opinion
PostDetectOpinion ==
    \E svc \in Services, item \in DetectItems :
        /\ ArriveDetect(svc, <<item>>)
        /\ d_endpoint' = "single"

\* POST /detect-opinion/batch; items: list[DetectRequest] = Field(..., min_length=1)
PostDetectOpinionBatch ==
    \E svc \in Services, items \in Batches :
        /\ ArriveDetect(svc, items)
        /\ d_endpoint' = "batch"

\* _detect_single begins: without persons it answers at once
DetectStart ==
    /\ d_pc = "d_item"
    /\ IF d_items[d_idx].persons = <<>>
       THEN /\ d_result' = SafeDefault(10)
            /\ d_log' = Append(d_log, [kind |-> "no_persons", answer |-> NoResult, attempts |-> 0])
            /\ d_pc' = "d_persist"
       ELSE /\ d_pc' = "d_oracle"
            /\ UNCHANGED <<d_result, d_log>>
    /\ d_attempts' = 0
    /\ UNCHANGED <<opinion_detection, d_service, d_endpoint, d_items, d_idx, d_results,
                   d_response, d_status, segmentation, item_check, race>>

\* _detect_single: one oracle attempt
DetectOracle ==
    /\ d_pc = "d_oracle"
    /\ \E o \in DetectOutcomes :
        LET res == DetectAttempt(d_service, o.kind, d_attempts + 1)
        IN CASE res = "parsed" ->
                  /\ d_result' = Whitelisted(o.answer, d_items[d_idx].persons)
                  /\ d_log' = Append(d_log, [kind |-> "answer", answer |-> o.answer,
                                             attempts |-> 0])
                  /\ d_pc' = "d_persist"
                  /\ d_attempts' = 0
             [] res = "failed" ->
                  /\ d_result' = SafeDefault(0)
                  /\ d_log' = Append(d_log, [kind |-> IF o.kind = "mismatch" THEN "mismatch"
                                                      ELSE "failed",
                                             answer |-> NoResult,
                                             attempts |-> d_attempts + 1])
                  /\ d_pc' = "d_persist"
                  /\ d_attempts' = 0
             [] OTHER ->
                  /\ d_attempts' = d_attempts + 1
                  /\ UNCHANGED <<d_result, d_log, d_pc>>
    /\ UNCHANGED <<opinion_detection, d_service, d_endpoint, d_items, d_idx, d_results,
                   d_response, d_status, segmentation, item_check, race>>

\* _persist_detection, results.append(result), and the loop goes on
DetectPersist ==
    /\ d_pc = "d_persist"
    /\ opinion_detection' = [opinion_detection EXCEPT ![d_items[d_idx].chunk_id] =
                                DetectionRow(d_items[d_idx], d_result)]
    /\ d_results' = Append(d_results, d_result)
    /\ IF d_idx < Len(d_items)
       THEN d_idx' = d_idx + 1 /\ d_pc' = "d_item"
       ELSE d_idx' = d_idx /\ d_pc' = "d_return"
    /\ UNCHANGED <<d_service, d_endpoint, d_items, d_attempts, d_result, d_response,
                   d_status, d_log, segmentation, item_check, race>>

\* upsert_detection raises (sqlite3 error): nothing catches it, processing stops
DetectPersistFails ==
    /\ d_pc = "d_persist"
    /\ d_status' = "error500"
    /\ d_pc' = "done"
    /\ UNCHANGED <<opinion_detection, d_service, d_endpoint, d_items, d_idx, d_attempts,
                   d_result, d_results, d_response, d_log, segmentation, item_check, race>>

\* the handler returns
DetectReturn ==
    /\ d_pc = "d_return"
    /\ d_response' = [results |-> d_results,
                      total_with_opinions |-> CountWithOpinions(d_results)]
    /\ d_status' = "ok"
    /\ d_pc' = "done"
    /\ UNCHANGED <<opinion_detection, d_service, d_endpoint, d_items, d_idx, d_attempts,
                   d_result, d_results, d_log, segmentation, item_check, race>>

\* ---------------------------------------------------------------- initial state
\* The service starts on the database and the exports directory an earlier
\* full pipeline run for video vA left behind: the oracle had answered Pass 1
\* with a narrative segment [0, 0] and a qa segment [1, 1], and Pass 2 with one
\* block [1, 1].  Video vB was never processed.
SeedUtterances == MkUtterances(<<0, 1>>)
SeedSegments ==
    <<[type |-> "narrative", start_u |-> 0, end_u |-> 0,
       confidence |-> DefaultConfidence, notes |-> NoNotes],
      [type |-> "qa", start_u |-> 1, end_u |-> 1,
       confidence |-> DefaultConfidence, notes |-> NoNotes]>>
SeedBlocks ==
    <<[start_u |-> 1, end_u |-> 1, questions |-> <<>>, answer_summary |-> "",
       confidence |-> DefaultConfidence]>>
SeedBoundaryRows ==
    {BoundaryRow("vA", SeedUtterances, j - 1, SeedSegments[j]) : j \in 1..Len(SeedSegments)}
SeedBlockRows ==
    {BlockRow("vA", InRange(SeedUtterances, 1, 1), j - 1, SeedBlocks[j]) : j \in 1..Len(SeedBlocks)}
SeedExport ==
    ExportData("vA", StoredBoundaries(SeedUtterances, SeedSegments),
               AppendBlocks(<<>>, SeedUtterances, 0, SeedBlocks))

SegmentationIdle ==
    /\ qa_boundary = SeedBoundaryRows
    /\ qa_block = SeedBlockRows
    /\ qa_export = [v \in Videos |-> IF v = "vA" THEN SeedExport ELSE NoExport]
    /\ export_file = [v \in Videos |-> IF v = "vA" THEN SeedExport ELSE NoExport]
    /\ pc = "idle"
    /\ endpoint = "none"
    /\ video_id = "vA"
    /\ utterances = <<>>
    /\ b_utterances = <<>>
    /\ qa_range = NoRange
    /\ attempts = 0
    /\ last_outcome = "none"
    /\ raw_count = 0
    /\ validated = <<>>
    /\ segments = <<>>
    /\ blocks = <<>>
    /\ i = 0
    /\ seg_pos = 0
    /\ all_blocks = <<>>
    /\ block_counter = 0
    /\ status = "none"
    /\ response = NoResponse
    /\ pre = [b |-> SeedBoundaryRows, k |-> SeedBlockRows,
              e |-> [v \in Videos |-> IF v = "vA" THEN SeedExport ELSE NoExport],
              f |-> [v \in Videos |-> IF v = "vA" THEN SeedExport ELSE NoExport]]
    /\ n_validate = 0
    /\ n_persist = 0
    /\ p2log = <<>>

\* no detection request is being served and the table opinion_detection is empty
DetectionIdle ==
    /\ opinion_detection = [c \in ChunkIds |-> NoRow]
    /\ d_service = "none"
    /\ d_endpoint = "none"
    /\ d_pc = "idle"
    /\ d_items = <<>>
    /\ d_idx = 0
    /\ d_attempts = 0
    /\ d_result = NoResult
    /\ d_results = <<>>
    /\ d_response = NoDetectResponse
    /\ d_status = "none"
    /\ d_log = <<>>

\* no validator iteration is under study
ItemIdle ==
    /\ it_kind = "none"
    /\ it_raw = NoItem
    /\ it_lo = 0
    /\ it_hi = 0
    /\ it_out = [res |-> "none"]
    /\ it_result = <<>>

\* no pair of requests is being served at once
RaceIdle ==
    /\ r_pc = [p \in Runs |-> "idle"]
    /\ r_segs = [p \in Runs |-> <<>>]
    /\ r_i = [p \in Runs |-> 0]

Init == SegmentationIdle /\ DetectionIdle /\ ItemIdle /\ RaceIdle

Next ==
    \/ PostBoundaries \/ PostBlocks \/ PostRun \/ PostFromDeepgram
    \/ P1Oracle \/ P1ValidateItem \/ P1ValidateEnd \/ P1Delete \/ P1Upsert \/ P1Return
    \/ P2Oracle \/ P2ValidateItem \/ P2ValidateEnd \/ P2Delete \/ P2Upsert \/ P2Return
    \/ FullSkipSegment \/ FullCallBlocks \/ FullSaveExport \/ FullWriteFile

Spec == Init /\ [][Next]_vars

DetectNext ==
    \/ PostDetectOpinion \/ PostDetectOpinionBatch
    \/ DetectStart \/ DetectOracle \/ DetectPersist \/ DetectPersistFails \/ DetectReturn

DetectSpec == Init /\ [][DetectNext]_vars

\* ------------------------------------------------------- one item, one validator
\* The validators and the repair step on their own: a raw item with any of the
\* confidences below, in a list of its own, for each bound a handler can pass.
ConfidenceValues == {-30, -1, 0, 3, 5, 10, 11, 75}
StudyConfidences == {Absent, NonNum} \cup {Num(c) : c \in ConfidenceValues}

StudySegments ==
    [shape : {"dict"}, start_u : RawIndexValues, end_u : RawIndexValues,
     type : RawTypes, confidence : StudyConfidences]
    \cup {[shape |-> "other", start_u |-> Absent, end_u |-> Absent,
           type |-> TypeAbsent, confidence |-> Absent]}

StudyBlocks ==
    [shape : {"dict"}, start_u : RawIndexValues, end_u : RawIndexValues,
     confidence : StudyConfidences, questions : RawQuestions]
    \cup {[shape |-> "other", start_u |-> Absent, end_u |-> Absent,
           confidence |-> Absent, questions |-> [t |-> "absent", v |-> <<>>]]}

ItemInit ==
    /\ SegmentationIdle
    /\ DetectionIdle
    /\ RaceIdle
    /\ it_out = [res |-> "none"]
    /\ it_result = <<>>
    /\ \/ /\ it_kind = "segment"
          /\ it_raw \in StudySegments
          /\ it_lo = 0
          /\ it_hi \in 0..MaxBound
       \/ /\ it_kind = "block"
          /\ it_raw \in StudyBlocks
          /\ it_lo \in 0..MaxBound
          /\ it_hi \in 0..MaxBound

\* _validate_segments([it_raw], max_u) and "if not segments: segments = [fallback]"
ApplyValidateSegments ==
    /\ it_kind = "segment"
    /\ it_out.res = "none"
    /\ it_out' = ValidateSegment(it_raw, it_hi)
    /\ it_result' = IF it_out'.res = "raise" THEN <<>>
                    ELSE RepairSegments(IF it_out'.res = "keep" THEN <<it_out'.unit>> ELSE <<>>,
                                        it_hi)
    /\ UNCHANGED <<segmentation, detection, race, it_kind, it_raw, it_lo, it_hi>>

\* _validate_blocks([it_raw], qa_start, qa_end) and "if not blocks: blocks = [fallback]"
ApplyValidateBlocks ==
    /\ it_kind = "block"
    /\ it_out.res = "none"
    /\ it_out' = ValidateBlock(it_raw, it_lo, it_hi)
    /\ it_result' = IF it_out'.res = "raise" THEN <<>>
                    ELSE RepairBlocks(IF it_out'.res = "keep" THEN <<it_out'.unit>> ELSE <<>>,
                                      it_lo, it_hi)
    /\ UNCHANGED <<segmentation, detection, race, it_kind, it_raw, it_lo, it_hi>>

ItemNext == ApplyValidateSegments \/ ApplyValidateBlocks

ItemSpec == ItemInit /\ [][ItemNext]_vars

\* ------------------------------------------------- one list, one validator
\* The validators and the repair step on a whole oracle list: up to MaxList raw
\* items, with ranges inside and outside the bounds and in any order, or an
\* item that is not an object.
ListIndexValues == {Num(n) : n \in 0..(MaxIdx + 1)}

ListSegments ==
    [shape : {"dict"}, start_u : ListIndexValues, end_u : ListIndexValues,
     type : {"qa"}, confidence : {Absent}]
    \cup {[shape |-> "other", start_u |-> Absent, end_u |-> Absent,
           type |-> TypeAbsent, confidence |-> Absent]}

ListBlocks ==
    [shape : {"dict"}, start_u : ListIndexValues, end_u : ListIndexValues,
     confidence : {Absent}, questions : {[t |-> "absent", v |-> <<>>]}]
    \cup {[shape |-> "other", start_u |-> Absent, end_u |-> Absent,
           confidence |-> Absent, questions |-> [t |-> "absent", v |-> <<>>]]}

ListsOver(S) == UNION {[1..n -> S] : n \in 0..MaxList}

ListInit ==
    /\ SegmentationIdle
    /\ DetectionIdle
    /\ RaceIdle
    /\ it_out = [res |-> "none"]
    /\ it_result = <<>>
    /\ it_hi \in 0..MaxIdx
    /\ \/ /\ it_kind = "segments"
          /\ it_raw \in ListsOver(ListSegments)
          /\ it_lo = 0
       \/ /\ it_kind = "blocks"
          /\ it_raw \in ListsOver(ListBlocks)
          /\ it_lo \in 0..MaxIdx

\* segments = _validate_segments(raw_segments, max_u); if not segments: segments = [fallback]
ApplyPass1Validation ==
    /\ it_kind = "segments"
    /\ it_out.res = "none"
    /\ it_out' = ValidateSegments(it_raw, it_hi)
    /\ it_result' = IF it_out'.res = "raise" THEN <<>>
                    ELSE RepairSegments(it_out'.list, it_hi)
    /\ UNCHANGED <<segmentation, detection, race, it_kind, it_raw, it_lo, it_hi>>

\* blocks = _validate_blocks(raw_blocks, ...); if not blocks: blocks = [fallback]
ApplyPass2Validation ==
    /\ it_kind = "blocks"
    /\ it_out.res = "none"
    /\ it_out' = ValidateBlocks(it_raw, it_lo, it_hi)
    /\ it_result' = IF it_out'.res = "raise" THEN <<>>
                    ELSE RepairBlocks(it_out'.list, it_lo, it_hi)
    /\ UNCHANGED <<segmentation, detection, race, it_kind, it_raw, it_lo, it_hi>>

ListNext == ApplyPass1Validation \/ ApplyPass2Validation

ListSpec == ListInit /\ [][ListNext]_vars

\* ------------------------------------------- two boundary passes for one video
\* Two POST /segment/qa/boundaries requests for the same video and transcript
\* are served by two worker threads.  Oracle call, validation and fallback touch
\* nothing shared, so each run starts with its Pass 1 result; delete_boundaries
\* and each upsert_boundary is a transaction of its own (db.py opens and commits
\* a connection per call) and the two runs' transactions interleave freely.
RaceVideo == "vA"
RaceUtterances == SeedUtterances

\* the segments a validator can keep for the transcript; those of one type are
\* enough, the type being written along with the range without steering the loop
RaceUnits ==
    {r.unit : r \in {o \in SegmentOutcomes[MaxU(RaceUtterances)] :
                        o.res = "keep" /\ o.unit.type = "qa"}}

\* the Pass 1 results: the fallback, or up to MaxRaceSegs kept segments
RaceResults ==
    {<<FallbackSegment(MaxU(RaceUtterances))>>}
    \cup UNION {[1..n -> RaceUnits] : n \in 1..MaxRaceSegs}

\* segment_boundaries up to "if not segments: ..." (main.py 360-384)
RaceBegin(p) ==
    /\ r_pc[p] = "idle"
    /\ \E segs \in RaceResults : r_segs' = [r_segs EXCEPT ![p] = segs]
    /\ r_pc' = [r_pc EXCEPT ![p] = "delete"]
    /\ UNCHANGED <<store, serving, detection, item_check, r_i>>

\* delete_boundaries(req.video_id)
RaceDelete(p) ==
    /\ r_pc[p] = "delete"
    /\ qa_boundary' = DeleteRows(qa_boundary, RaceVideo)
    /\ r_i' = [r_i EXCEPT ![p] = 0]
    /\ r_pc' = [r_pc EXCEPT ![p] = "upsert"]
    /\ UNCHANGED <<qa_block, qa_export, export_file, serving, detection, item_check, r_segs>>

\* one iteration of "for i, seg in enumerate(segments): upsert_boundary(...)"
RaceUpsert(p) ==
    /\ r_pc[p] = "upsert"
    /\ r_i[p] < Len(r_segs[p])
    /\ qa_boundary' = UpsertBoundaryRow(qa_boundary,
                          BoundaryRow(RaceVideo, RaceUtterances, r_i[p], r_segs[p][r_i[p] + 1]))
    /\ r_i' = [r_i EXCEPT ![p] = r_i[p] + 1]
    /\ UNCHANGED <<qa_block, qa_export, export_file, serving, detection, item_check, r_pc, r_segs>>

\* return BoundaryResponse(...)
RaceReturn(p) ==
    /\ r_pc[p] = "upsert"
    /\ r_i[p] = Len(r_segs[p])
    /\ r_pc' = [r_pc EXCEPT ![p] = "done"]
    /\ UNCHANGED <<store, serving, detection, item_check, r_segs, r_i>>

RaceNext == \E p \in Runs : RaceBegin(p) \/ RaceDelete(p) \/ RaceUpsert(p) \/ RaceReturn(p)

RaceSpec == Init /\ [][RaceNext]_vars

\* ===================================================================== claims
StoreAsOnArrival ==
    /\ qa_boundary = pre.b
    /\ qa_block = pre.k
    /\ qa_export = pre.e
    /\ export_file = pre.f

UnitInBounds(unit, lo, hi) == lo <= unit.start_u /\ unit.start_u <= unit.end_u /\ unit.end_u <= hi
AllInBounds(list, lo, hi) == \A j \in 1..Len(list) : UnitInBounds(list[j], lo, hi)

\* the boundary pass has its result: segment_boundaries is persisting or has answered
Pass1HasResult ==
    \/ pc \in {"p1_delete", "p1_upsert"}
    \/ endpoint = "boundaries" /\ status = "ok"

\* the block pass has its result: segment_blocks is persisting or has answered
Pass2HasResult ==
    \/ pc \in {"p2_delete", "p2_upsert"}
    \/ endpoint = "blocks" /\ status = "ok"

\* C1 - Pass 1 bound-safety: every segment the boundary pass holds as its
\* result, returns to the caller or writes to qa_boundary has
\* 0 <= start_u <= end_u <= max_u, max_u being the largest utterance index of
\* the request, whatever raw segments the oracle listed.
C1_Pass1BoundSafety ==
    (endpoint \in {"boundaries", "run", "from_deepgram"} /\ utterances # <<>>) =>
        LET max_u == MaxU(utterances)
        IN /\ AllInBounds(segments, 0, max_u)
           /\ AllInBounds(response.segments, 0, max_u)
           /\ \A r \in qa_boundary \ pre.b : UnitInBounds(r, 0, max_u)

\* C1 witness: the oracle listed MaxSegs raw segments, all but one were out of
\* bounds, and the boundary pass stored and returned the remaining one.
C1_Witness ==
    /\ endpoint = "boundaries"
    /\ status = "ok"
    /\ raw_count = MaxSegs
    /\ Len(validated) = 1
    /\ Len(response.segments) = 1
    /\ qa_boundary # pre.b

\* what C2 says of the block pass in progress or just answered
BlockPassBounds ==
    /\ Pass2HasResult => AllInBounds(blocks, qa_range.start_u, qa_range.end_u)
    /\ (endpoint = "blocks" /\ status = "ok") =>
           AllInBounds(response.qa_blocks, qa_range.start_u, qa_range.end_u)
    /\ (pc = "p2_upsert" \/ (endpoint = "blocks" /\ status = "ok")) =>
           \A r \in GetBlocks(video_id) : UnitInBounds(r, qa_range.start_u, qa_range.end_u)

\* what C2 says of the block passes segment_full has made so far
FullRunBlockBounds ==
    \A n \in 1..Len(p2log) :
        AllInBounds(p2log[n].blocks, segments[p2log[n].pos].start_u, segments[p2log[n].pos].end_u)

\* C2 as stated - Pass 2 bound-safety for every accepted request (both ends of
\* qa_range >= 0) and any raw oracle blocks: every block returned or stored,
\* the fallback block included, has
\* qa_range.start_u <= start_u <= end_u <= qa_range.end_u.
C2_Pass2BoundSafety == BlockPassBounds /\ FullRunBlockBounds

\* the validator of a directly called pass has been run on a parsed answer and is over
Pass1ValidatorOver ==
    \/ pc \in {"p1_delete", "p1_upsert"}
    \/ endpoint = "boundaries" /\ pc = "done" /\ last_outcome = "json"
Pass2ValidatorOver ==
    \/ pc \in {"p2_delete", "p2_upsert"}
    \/ endpoint = "blocks" /\ pc = "done" /\ last_outcome = "json"

\* C3 as stated - coverage-or-fallback: for a range with lower <= upper and any
\* parsed oracle answer, validate followed by repair yields a non-empty
\* sequence, and exactly the one unit spanning [lower, upper] (narrative,
\* confidence 0.5 / no questions, confidence 0.5) when no raw item passed.
C3_CoverageOrFallback ==
    /\ Pass1ValidatorOver =>
          /\ segments # <<>>
          /\ validated = <<>> =>
                /\ Len(segments) = 1
                /\ segments[1].type = "narrative"
                /\ segments[1].start_u = 0
                /\ segments[1].end_u = MaxU(utterances)
                /\ segments[1].confidence = 5
    /\ (Pass2ValidatorOver /\ qa_range.start_u <= qa_range.end_u) =>
          /\ blocks # <<>>
          /\ validated = <<>> =>
                /\ Len(blocks) = 1
                /\ blocks[1].start_u = qa_range.start_u
                /\ blocks[1].end_u = qa_range.end_u
                /\ blocks[1].questions = <<>>
                /\ blocks[1].confidence = 5

\* C4 as stated - oracle semantic non-compliance is never fatal: whatever the
\* records of a parsed answer hold, the validator does not raise, so no pass
\* ends in an unhandled error and no segment of a full run is lost to one.
C4_ValidatorNeverRaises ==
    /\ status # "error500"
    /\ ~(/\ pc = "full_loop"
         /\ p2log # <<>>
         /\ ~p2log[Len(p2log)].ok
         /\ last_outcome = "json")

\* the segments cover every index of lo..hi exactly once
Partitions(list, lo, hi) ==
    \A x \in lo..hi :
        Cardinality({j \in 1..Len(list) : list[j].start_u <= x /\ x <= list[j].end_u}) = 1

\* C5 as stated - gap-free coverage: the segments of a successful Pass 1 call
\* partition [0, max_index], for any oracle answer.
C5_Original ==
    Pass1HasResult => Partitions(segments, 0, MaxU(utterances))

\* C5 amended - the segments of a successful Pass 1 call partition
\* [0, max_index] when no raw segment passed validation (the result is the
\* fallback segment); otherwise they are the validated segments as the oracle
\* gave them, each inside [0, max_index], with their gaps and overlaps.
C5_FallbackCoverage ==
    Pass1HasResult =>
        /\ validated = <<>> => Partitions(segments, 0, MaxU(utterances))
        /\ validated # <<>> => segments = validated
        /\ \A j \in 1..Len(segments) :
              \A x \in segments[j].start_u..segments[j].end_u : x \in 0..MaxU(utterances)

\* C5 witness: every raw segment was dropped, the transcript has more than one
\* index, and the boundary pass answered with the fallback.
C5_Witness ==
    /\ endpoint = "boundaries"
    /\ status = "ok"
    /\ raw_count >= 1
    /\ validated = <<>>
    /\ MaxU(utterances) >= 1
    /\ Len(response.segments) = 1

\* what get_boundaries returns, as (seg_id, start_u, end_u)
StoredSegmentKeys(v) ==
    {[seg_id |-> r.seg_id, start_u |-> r.start_u, end_u |-> r.end_u] : r \in GetBoundaries(v)}
ReturnedSegmentKeys ==
    {[seg_id |-> SegId(j - 1), start_u |-> response.segments[j].start_u,
      end_u |-> response.segments[j].end_u] : j \in 1..Len(response.segments)}

\* C6 - replace semantics: when a boundary pass for a video has answered, the
\* rows get_boundaries returns for the video are exactly that run's segments
\* (seg_id and index range); no row of the run before it is left, also when
\* the new run has fewer segments.
C6_ReplaceSemantics ==
    (endpoint = "boundaries" /\ status = "ok") =>
        /\ StoredSegmentKeys(video_id) = ReturnedSegmentKeys
        /\ Cardinality(GetBoundaries(video_id)) = Len(response.segments)

\* C6 witness: the second boundary pass for vA answered with one segment
\* where the run before it had left two rows.
C6_Witness ==
    /\ endpoint = "boundaries"
    /\ status = "ok"
    /\ Cardinality({r \in pre.b : r.video_id = video_id}) = 2
    /\ Len(response.segments) = 1

\* C7 - when the third oracle attempt of Pass 1 fails too, the call ends in an
\* error, no segment is put in the answer, and the tables are what they were
\* when the request arrived.
C7_Pass1OracleFailure ==
    [][(pc = "p1_oracle" /\ attempts = MaxAttempts - 1 /\ last_outcome' # "json") =>
          (/\ pc' = "done"
           /\ status' = "error502"
           /\ segments' = <<>>
           /\ response' = NoResponse
           /\ qa_boundary' = pre.b
           /\ qa_block' = pre.k
           /\ qa_export' = pre.e)]_vars

\* C7 witness: a boundary pass for vA, which has rows, ended in the error
\* after three failed attempts.
C7_Witness ==
    /\ endpoint = "boundaries"
    /\ video_id = "vA"
    /\ status = "error502"
    /\ attempts = MaxAttempts
    /\ GetBoundaries("vA") # {}

OraclePcs == {"p1_oracle", "p2_oracle"}
ValidatePcs == {"p1_validate", "p2_validate"}

\* what one oracle attempt may do to the call
C8_AttemptStep ==
    pc \in OraclePcs =>
        /\ last_outcome' = "json" => (pc' \in ValidatePcs /\ n_validate' = 1)
        /\ (last_outcome' # "json" /\ attempts < MaxAttempts - 1) =>
               (pc' = pc /\ attempts' = attempts + 1 /\ n_validate' = 0)
        /\ (last_outcome' # "json" /\ attempts = MaxAttempts - 1) =>
               (/\ pc' \notin OraclePcs \cup ValidatePcs
                /\ attempts' = MaxAttempts
                /\ n_validate' = 0)

\* C8 - bounded retry: a pass call invokes the oracle at most 3 times; the
\* attempt that returns JSON ends the invocation and starts validation, a
\* failed attempt (non-JSON included) before the third is retried, the third
\* failed attempt ends the call; validation and persistence run at most once.
C8_BoundedRetry ==
    /\ [](/\ attempts <= MaxAttempts
          /\ pc \in OraclePcs => attempts < MaxAttempts
          /\ n_validate <= 1
          /\ n_persist <= 1
          /\ status = "error502" => (attempts = MaxAttempts /\ last_outcome # "json"))
    /\ [][C8_AttemptStep]_vars

\* C8 witness: a block pass ended in the error after three attempts, the last
\* of which returned text that is not JSON.
C8_Witness ==
    /\ endpoint = "blocks"
    /\ status = "error502"
    /\ attempts = MaxAttempts
    /\ last_outcome = "non_json"
    /\ n_validate = 0

\* C9 - a request without utterances (a Deepgram document without
\* results.utterances included) ends in a client error, with no oracle
\* invocation and no change to the tables or the export file.
C9_EmptyInputRejected ==
    (pc # "idle" /\ utterances = <<>>) =>
        /\ pc = "done"
        /\ status = "client_error"
        /\ attempts = 0
        /\ last_outcome = "none"
        /\ StoreAsOnArrival

\* C9 witness: a Deepgram document without utterances was rejected.
C9_Witness ==
    /\ endpoint = "from_deepgram"
    /\ utterances = <<>>
    /\ status = "client_error"

\* the blocks of the Pass 2 calls that succeeded, in call order
RECURSIVE LoggedBlocks(_)
LoggedBlocks(log) ==
    IF log = <<>> THEN <<>>
    ELSE (IF Head(log).ok THEN Head(log).blocks ELSE <<>>) \o LoggedBlocks(Tail(log))

IndexRanges(list) == [j \in 1..Len(list) |-> [start_u |-> list[j].start_u, end_u |-> list[j].end_u]]

Pass2Pcs == {"p2_oracle", "p2_validate", "p2_delete", "p2_upsert"}

\* C10 - partial-failure isolation: inside a full pipeline run no step of a
\* Pass 2 call ends the run; when the run has answered, every qa segment with
\* utterances had its Pass 2 call, and the blocks of the answer and of the
\* export are those of all the calls that succeeded, in order, a failed call
\* contributing none.
C10_PartialFailureIsolation ==
    /\ []((IsFull /\ status = "ok") =>
            /\ \A k \in 1..Len(segments) :
                  (segments[k].type = "qa"
                   /\ InRange(utterances, segments[k].start_u, segments[k].end_u) # <<>>)
                  => Cardinality({n \in 1..Len(p2log) : p2log[n].pos = k}) = 1
            /\ IndexRanges(response.qa_blocks) = IndexRanges(LoggedBlocks(p2log))
            /\ IndexRanges(qa_export[video_id].qa_blocks) = IndexRanges(LoggedBlocks(p2log))
            /\ IndexRanges(export_file[video_id].qa_blocks) = IndexRanges(LoggedBlocks(p2log)))
    /\ [][(IsFull /\ pc \in Pass2Pcs) => (pc' # "done" /\ status' = status)]_vars

\* C10 witness: a full run answered although the Pass 2 call of its first qa
\* segment had failed, and the block of the second qa segment is in the answer.
C10_Witness ==
    /\ IsFull
    /\ status = "ok"
    /\ Len(p2log) = 2
    /\ ~p2log[1].ok
    /\ p2log[2].ok
    /\ Len(response.qa_blocks) >= 1

\* the utterances of the request whose index lies in the range of segment k
UtterancesOfSegment(k) ==
    LET InSegment(u) == segments[k].start_u <= u.u /\ u.u <= segments[k].end_u
    IN SelectSeq(utterances, InSegment)

\* C11 - Pass 2 scoping: in a full pipeline run every Pass 2 call, in progress
\* or finished, is for a qa segment of the Pass 1 result, with qa_range equal to
\* the segment's [start_u, end_u] and with exactly the request's utterances whose
\* index lies in that range, which are at least one; no segment gets two calls;
\* every qa segment with utterances the loop has passed got its call; and the
\* blocks of the answer are those of the calls, so none is from a narrative segment.
C11_Pass2Scoping ==
    IsFull =>
        /\ pc \in Pass2Pcs =>
              /\ seg_pos \in 1..Len(segments)
              /\ segments[seg_pos].type = "qa"
              /\ qa_range = [start_u |-> segments[seg_pos].start_u,
                             end_u |-> segments[seg_pos].end_u]
              /\ b_utterances = UtterancesOfSegment(seg_pos)
              /\ b_utterances # <<>>
              /\ \A n \in 1..Len(p2log) : p2log[n].pos # seg_pos
        /\ \A n \in 1..Len(p2log) :
              LET k == p2log[n].pos
              IN /\ k \in 1..Len(segments)
                 /\ segments[k].type = "qa"
                 /\ p2log[n].qa_range = [start_u |-> segments[k].start_u,
                                         end_u |-> segments[k].end_u]
                 /\ p2log[n].utterances = UtterancesOfSegment(k)
                 /\ p2log[n].utterances # <<>>
                 /\ \A m \in 1..(n - 1) : p2log[m].pos # k
        /\ pc \in {"full_loop", "full_file", "done"} =>
              \A k \in 1..Len(segments) :
                  (k < seg_pos /\ segments[k].type = "qa" /\ UtterancesOfSegment(k) # <<>>)
                  => \E n \in 1..Len(p2log) : p2log[n].pos = k
        /\ status = "ok" =>
              /\ seg_pos = Len(segments) + 1
              /\ IndexRanges(response.qa_blocks) = IndexRanges(LoggedBlocks(p2log))

\* C11 witness: a full run answered whose Pass 1 result was a narrative and a
\* qa segment; the one Pass 2 call got fewer utterances than the request has.
C11_Witness ==
    /\ IsFull
    /\ status = "ok"
    /\ Len(segments) = 2
    /\ Len(p2log) = 1
    /\ segments[3 - p2log[1].pos].type = "narrative"
    /\ Len(p2log[1].utterances) < Len(utterances)
    /\ Len(response.qa_blocks) = 1

\* the block ids in the order of their numeric suffix
ExpectedBlockIds ==
    <<"qa_000", "qa_001", "qa_002", "qa_003", "qa_004", "qa_005", "qa_006", "qa_007",
      "qa_008", "qa_009", "qa_010", "qa_011">>

\* the numeric suffix of a block id
BlockNumber(block_id) ==
    (CHOOSE n \in 1..Len(ExpectedBlockIds) : ExpectedBlockIds[n] = block_id) - 1

HasBlockNumber(block_id) == \E n \in 1..Len(ExpectedBlockIds) : ExpectedBlockIds[n] = block_id

\* the j-th block of the list has number j - 1
NumberedFromZero(list) ==
    \A j \in 1..Len(list) :
        HasBlockNumber(list[j].block_id) /\ BlockNumber(list[j].block_id) = j - 1

\* C12 - gap-free global renumbering: the blocks segment_full has collected,
\* and those of a full pipeline answer and of its export, carry the ids qa_000,
\* qa_001, ..., qa_(n-1) in list order, whatever the number of qa segments and
\* also when the Pass 2 call of some segment failed.
C12_GapFreeRenumbering ==
    IsFull =>
        /\ NumberedFromZero(all_blocks)
        /\ block_counter = Len(all_blocks)
        /\ status = "ok" =>
              /\ NumberedFromZero(response.qa_blocks)
              /\ NumberedFromZero(qa_export[video_id].qa_blocks)
              /\ NumberedFromZero(export_file[video_id].qa_blocks)
              /\ Len(response.qa_blocks) = Len(LoggedBlocks(p2log))

\* C12 witness: a full run answered with the blocks of two qa segments.
C12_Witness ==
    /\ IsFull
    /\ status = "ok"
    /\ Len(p2log) = 2
    /\ p2log[1].ok /\ p2log[2].ok
    /\ Len(response.qa_blocks) = 2
    /\ response.qa_blocks[2].block_id = "qa_001"

\* for each block of the successful Pass 2 calls, in call order, the position
\* of the segment the call was for
RECURSIVE LoggedOrigins(_)
LoggedOrigins(log) ==
    IF log = <<>> THEN <<>>
    ELSE (IF Head(log).ok
          THEN [j \in 1..Len(Head(log).blocks) |-> Head(log).pos]
          ELSE <<>>) \o LoggedOrigins(Tail(log))

\* C13 as stated - block order follows segment start_index order: in a full
\* pipeline answer, a block of a qa segment with a smaller start_u than the qa
\* segment of another block has the smaller block id number; the blocks of one
\* segment keep the order Pass 2 returned them in.
C13_BlockOrderFollowsStartIndex ==
    (IsFull /\ status = "ok") =>
        LET origin == LoggedOrigins(p2log)
            result == response.qa_blocks
        IN /\ Len(origin) = Len(result)
           /\ IndexRanges(result) = IndexRanges(LoggedBlocks(p2log))
           /\ \A a, b \in 1..Len(result) :
                 segments[origin[a]].start_u < segments[origin[b]].start_u
                 => BlockNumber(result[a].block_id) < BlockNumber(result[b].block_id)

\* C17 - export consistency: when a full pipeline run has answered, the export
\* file of the video and its record in qa_export hold the same document, which
\* names the video and whose boundary segments and blocks are those of the
\* answer; whatever an earlier run had exported for the video is superseded,
\* and the video has that one record.
C17_ExportConsistency ==
    (IsFull /\ status = "ok") =>
        /\ export_file[video_id] = qa_export[video_id]
        /\ qa_export[video_id].video_id = video_id
        /\ qa_export[video_id].boundary_segments = response.segments
        /\ qa_export[video_id].qa_blocks = response.qa_blocks
        /\ Cardinality({v \in DOMAIN qa_export : qa_export[v].video_id = video_id}) = 1

\* C17 witness: a full run for vA, which had an export with two segments,
\* answered with one segment and one block; file and record are the new document.
C17_Witness ==
    /\ IsFull
    /\ status = "ok"
    /\ video_id = "vA"
    /\ Len(pre.e["vA"].boundary_segments) = 2
    /\ Len(response.segments) = 1
    /\ Len(response.qa_blocks) = 1
    /\ qa_export["vA"] # pre.e["vA"]
    /\ export_file["vA"] # pre.f["vA"]

RowsOf(table, v) == {r \in table : r.video_id = v}

\* C18 - video isolation: while a request for a video is served and after it
\* has ended, in success or in error, the boundary rows, the block rows, the
\* export record and the export file of every other video are what they were
\* when the request arrived.
C18_VideoIsolation ==
    pc # "idle" =>
        \A v \in Videos \ {video_id} :
            /\ RowsOf(qa_boundary, v) = RowsOf(pre.b, v)
            /\ RowsOf(qa_block, v) = RowsOf(pre.k, v)
            /\ qa_export[v] = pre.e[v]
            /\ export_file[v] = pre.f[v]

\* C18 witness: a full run for vB answered and stored rows and an export for
\* vB; the rows and the export vA had are still there.
C18_Witness ==
    /\ IsFull
    /\ status = "ok"
    /\ video_id = "vB"
    /\ RowsOf(qa_boundary, "vB") # {}
    /\ RowsOf(qa_block, "vB") # {}
    /\ qa_export["vB"] # NoExport
    /\ Cardinality(RowsOf(qa_boundary, "vA")) = 2
    /\ Cardinality(RowsOf(qa_block, "vA")) = 1
    /\ qa_export["vA"] = SeedExport

\* ------------------------------------------------- claims on opinion detection
\* the targets of an oracle answer that are persons of the item, in the answer's order
TargetsAmongPersons(targets, persons) ==
    LET IsPerson(t) == \E k \in 1..Len(persons) : persons[k] = t
    IN SelectSeq(targets, IsPerson)

\* what an item has to come to, given what its oracle call came to
ExpectedResult(entry, item) ==
    CASE entry.kind = "answer" ->
           [has_opinion |-> entry.answer.has_opinion,
            targets |-> TargetsAmongPersons(entry.answer.targets, item.persons),
            opinion_spans |-> entry.answer.opinion_spans,
            polarity |-> entry.answer.polarity,
            confidence |-> entry.answer.confidence]
      [] entry.kind \in {"failed", "mismatch"} ->
           [has_opinion |-> FALSE, targets |-> <<>>, opinion_spans |-> <<>>,
            polarity |-> "unclear", confidence |-> 0]
      [] OTHER ->
           [has_opinion |-> FALSE, targets |-> <<>>, opinion_spans |-> <<>>,
            polarity |-> "unclear", confidence |-> 10]

\* item j is the last item served so far that has its chunk_id
LastServedOfChunk(j) ==
    \A k \in (j + 1)..Len(d_results) : d_items[k].chunk_id # d_items[j].chunk_id

\* the row of item j's chunk holds the result of item j
RowHoldsResult(j) ==
    LET row == opinion_detection[d_items[j].chunk_id]
    IN /\ row # NoRow
       /\ row.chunk_id = d_items[j].chunk_id
       /\ row.persons = d_items[j].persons
       /\ row.has_opinion = d_results[j].has_opinion
       /\ row.targets = d_results[j].targets
       /\ row.opinion_spans = d_results[j].opinion_spans
       /\ row.polarity = d_results[j].polarity
       /\ row.confidence = d_results[j].confidence

\* what an oracle attempt may do to the request
C14_OracleStep ==
    d_pc = "d_oracle" => (d_status' = d_status /\ d_pc' \in {"d_oracle", "d_persist"})

\* C14 - batch detection degrades per item: an item whose oracle call failed
\* after the retries, or whose answer does not match the result schema, is
\* returned and persisted as the safe default (no opinion, no targets, no spans,
\* polarity unclear, confidence 0.0); every other item is returned and persisted
\* with its real result; the response has one result per item in request order;
\* and no oracle attempt ends the request with an error.
C14_BatchDegradesPerItem ==
    /\ [](/\ Len(d_results) <= Len(d_items)
          /\ Len(d_log) >= Len(d_results)
          /\ \A j \in 1..Len(d_results) :
                /\ d_results[j] = ExpectedResult(d_log[j], d_items[j])
                /\ LastServedOfChunk(j) => RowHoldsResult(j)
          /\ d_status = "ok" =>
                /\ d_response.results = d_results
                /\ Len(d_response.results) = Len(d_items))
    /\ [][C14_OracleStep]_vars

\* C14 witness: a batch of MaxItems items with distinct chunk ids answered; the
\* oracle call of the first item had failed three times, the last item has its
\* real result with an opinion.
C14_Witness ==
    /\ d_endpoint = "batch"
    /\ d_status = "ok"
    /\ Len(d_items) = MaxItems
    /\ \A j, k \in 1..Len(d_items) : j # k => d_items[j].chunk_id # d_items[k].chunk_id
    /\ d_log[1].kind = "failed"
    /\ d_log[1].attempts = MaxAttempts
    /\ d_response.results[1].confidence = 0
    /\ d_log[Len(d_items)].kind = "answer"
    /\ d_response.results[Len(d_items)].has_opinion

\* rows are written only for the item being persisted and are never removed
C15_StoreStep ==
    \A c \in ChunkIds :
        /\ opinion_detection[c] # NoRow => opinion_detection'[c] # NoRow
        /\ opinion_detection'[c] # opinion_detection[c] =>
               (d_pc = "d_persist" /\ d_items[d_idx].chunk_id = c)

\* C15 - batch persistence is sequential: when the oracle is called for an
\* item, and whenever processing stops, every earlier item has been persisted
\* (its chunk's row holds its result unless a later served item has the same
\* chunk_id); rows once written stay in storage.
C15_SequentialPersistence ==
    /\ []((d_pc \in {"d_item", "d_oracle", "d_persist"} \/ d_status = "error500") =>
            /\ Len(d_results) = d_idx - 1
            /\ \A j \in 1..(d_idx - 1) : LastServedOfChunk(j) => RowHoldsResult(j))
    /\ [][C15_StoreStep]_vars

\* C15 witness: processing stopped at the second item of a batch; the first
\* item's real result is in storage.
C15_Witness ==
    /\ d_endpoint = "batch"
    /\ d_status = "error500"
    /\ d_idx = 2
    /\ d_log[1].kind = "answer"
    /\ d_items[1].chunk_id # d_items[2].chunk_id
    /\ opinion_detection[d_items[1].chunk_id] # NoRow
    /\ opinion_detection[d_items[1].chunk_id].has_opinion
    /\ opinion_detection[d_items[2].chunk_id] = NoRow

ElementsOf(list) == {list[k] : k \in 1..Len(list)}

\* C16 - target whitelist: every target of a result, returned or persisted, is
\* one of the request's persons; the targets are those of the oracle's answer
\* that are persons, in the answer's order.
C16_TargetWhitelist ==
    /\ \A j \in 1..Len(d_results) :
          /\ ElementsOf(d_results[j].targets) \subseteq ElementsOf(d_items[j].persons)
          /\ d_log[j].kind = "answer" =>
                d_results[j].targets = TargetsAmongPersons(d_log[j].answer.targets,
                                                           d_items[j].persons)
    /\ d_pc = "d_persist" =>
          ElementsOf(d_result.targets) \subseteq ElementsOf(d_items[d_idx].persons)
    /\ \A j \in 1..Len(d_response.results) :
          ElementsOf(d_response.results[j].targets) \subseteq ElementsOf(d_items[j].persons)
    /\ \A c \in ChunkIds :
          opinion_detection[c] # NoRow =>
              ElementsOf(opinion_detection[c].targets) \subseteq ElementsOf(opinion_detection[c].persons)

\* C16 witness: the oracle named zed, who is not among the persons, before bob;
\* the result returned and persisted names bob alone.
C16_Witness ==
    /\ d_endpoint = "single"
    /\ d_status = "ok"
    /\ d_log[1].answer.targets = <<"zed", "bob">>
    /\ d_response.results[1].targets = <<"bob">>
    /\ opinion_detection[d_items[1].chunk_id].targets = <<"bob">>

\* ------------------------------------------------------ claims on the validators
\* the raw value is a whole number, or missing with a whole default
IndexAfterDefault(v, default) == IF v.t = "absent" THEN default ELSE v.n
IsWholeOrMissing(v) == v.t \in {"num", "absent"}

\* the indices of the raw segment under study are whole numbers in bounds
RawSegmentInBounds ==
    /\ it_raw.shape = "dict"
    /\ IsWholeOrMissing(it_raw.start_u)
    /\ IsWholeOrMissing(it_raw.end_u)
    /\ 0 <= IndexAfterDefault(it_raw.start_u, 0)
    /\ IndexAfterDefault(it_raw.start_u, 0) <= IndexAfterDefault(it_raw.end_u, 0)
    /\ IndexAfterDefault(it_raw.end_u, 0) <= it_hi

ExpectedConfidence(raw) ==
    IF raw.t = "absent" THEN 5
    ELSE IF raw.n < 0 THEN 0
    ELSE IF raw.n > 10 THEN 10
    ELSE raw.n

\* C20 - confidence clamp (confidences in tenths): every segment and block a
\* pass returns has 0 <= confidence <= 1; a kept unit has the oracle's
\* confidence when that is in [0, 1], 0 when it is below, 1 when it is above,
\* and 0.5 when the oracle gave none.
C20_ConfidenceClamp ==
    /\ \A j \in 1..Len(it_result) :
          0 <= it_result[j].confidence /\ it_result[j].confidence <= 10
    /\ it_out.res = "keep" =>
          /\ it_raw.confidence.t \in {"num", "absent"}
          /\ it_out.unit.confidence = ExpectedConfidence(it_raw.confidence)
          /\ it_result = <<it_out.unit>>

\* C20 witness: a block whose oracle confidence was 7.5 was kept with confidence 1.
C20_Witness ==
    /\ it_kind = "block"
    /\ it_raw.confidence = Num(75)
    /\ it_out.res = "keep"
    /\ it_result[1].confidence = 10

\* --------------------------------------------- claims on storage after a full run
\* what get_blocks returns, as (block_id, start_u, end_u)
StoredBlockKeys(v) ==
    {[block_id |-> r.block_id, start_u |-> r.start_u, end_u |-> r.end_u] : r \in GetBlocks(v)}
BlockKeys(list) ==
    {[block_id |-> list[j].block_id, start_u |-> list[j].start_u, end_u |-> list[j].end_u] :
        j \in 1..Len(list)}

\* C21 as stated - when a full pipeline run has answered, the block rows stored
\* for the video are exactly the blocks of the answer and of the export: as
\* many rows as blocks, each with the same block_id, start_u and end_u,
\* whatever the number of qa segments of the Pass 1 result.
C21_StoredBlocksAreRunBlocks ==
    (IsFull /\ status = "ok") =>
        /\ Cardinality(GetBlocks(video_id)) = Len(response.qa_blocks)
        /\ StoredBlockKeys(video_id) = BlockKeys(response.qa_blocks)
        /\ StoredBlockKeys(video_id) = BlockKeys(qa_export[video_id].qa_blocks)

\* C22 - every block of a full pipeline result lies inside one qa segment of
\* the same result, the segment whose Pass 2 call produced it: that segment
\* has type qa and start_u <= block.start_u <= block.end_u <= end_u.
C22_BlockInsideQaSegment ==
    IsFull =>
        /\ \A n \in 1..Len(p2log) :
              LET seg == segments[p2log[n].pos]
              IN /\ seg.type = "qa"
                 /\ \A j \in 1..Len(p2log[n].blocks) :
                       /\ seg.start_u <= p2log[n].blocks[j].start_u
                       /\ p2log[n].blocks[j].start_u <= p2log[n].blocks[j].end_u
                       /\ p2log[n].blocks[j].end_u <= seg.end_u
        /\ status = "ok" =>
              LET origin == LoggedOrigins(p2log)
              IN /\ Len(origin) = Len(response.qa_blocks)
                 /\ \A j \in 1..Len(response.qa_blocks) :
                       LET seg == response.segments[origin[j]]
                           block == response.qa_blocks[j]
                       IN /\ seg.type = "qa"
                          /\ seg.start_u <= block.start_u
                          /\ block.start_u <= block.end_u
                          /\ block.end_u <= seg.end_u
                          /\ \E k \in 1..Len(qa_export[video_id].boundary_segments) :
                                LET e == qa_export[video_id].boundary_segments[k]
                                IN e.type = "qa" /\ e.start_u <= block.start_u
                                   /\ block.end_u <= e.end_u

\* C22 witness: a full run answered with a narrative segment [0, 0] and a qa
\* segment [1, 1] whose Pass 2 call fell back to the block [1, 1].
C22_Witness ==
    /\ IsFull
    /\ status = "ok"
    /\ Len(response.segments) = 2
    /\ response.segments[2].type = "qa"
    /\ response.segments[2].start_u = 1
    /\ Len(p2log) = 1
    /\ p2log[1].ok
    /\ validated = <<>>
    /\ Len(response.qa_blocks) = 1
    /\ response.qa_blocks[1].start_u = 1
    /\ response.qa_blocks[1].end_u = 1

\* ------------------------------------------------- claims on a validated list
\* the raw item is an object whose indices are whole numbers within [lo, hi]
RawInBounds(item, lo, hi) ==
    /\ item.shape = "dict"
    /\ item.start_u.t = "num"
    /\ item.end_u.t = "num"
    /\ lo <= item.start_u.n
    /\ item.start_u.n <= item.end_u.n
    /\ item.end_u.n <= hi

\* the raw items of the list under study that are in bounds, in the oracle's order
InBoundsRaw ==
    LET Inside(item) == RawInBounds(item, it_lo, it_hi)
    IN SelectSeq(it_raw, Inside)

\* C23 - validation keeps order and content: when a pass got through the
\* oracle's list and at least one raw item is in bounds, the units it returns
\* are exactly the in-bounds raw items, with their index ranges, in the order
\* the oracle gave them: nothing is sorted, merged, trimmed or inserted.
C23_ValidationKeepsOrder ==
    (it_kind \in {"segments", "blocks"} /\ it_out.res = "list" /\ InBoundsRaw # <<>>) =>
        /\ it_result = it_out.list
        /\ Len(it_result) = Len(InBoundsRaw)
        /\ \A j \in 1..Len(it_result) :
              /\ it_result[j].start_u = InBoundsRaw[j].start_u.n
              /\ it_result[j].end_u = InBoundsRaw[j].end_u.n

\* C23 witness: of three raw segments the second was out of bounds; the first,
\* [1, 1], and the third, [0, 1], overlap and are out of order, and are
\* returned as given.
C23_Witness ==
    /\ it_kind = "segments"
    /\ it_out.res = "list"
    /\ Len(it_raw) = 3
    /\ ~RawInBounds(it_raw[2], it_lo, it_hi)
    /\ Len(it_result) = 2
    /\ it_result[1].start_u = 1
    /\ it_result[1].end_u = 1
    /\ it_result[2].start_u = 0
    /\ it_result[2].end_u = 1

\* ------------------------------------------------------- claims on ids and times
\* the segment ids in the order of their numeric suffix
ExpectedSegIds ==
    <<"seg_000", "seg_001", "seg_002", "seg_003", "seg_004", "seg_005", "seg_006", "seg_007">>

\* the boundary pass has answered: to the client, or to segment_full
Pass1Answered ==
    \/ endpoint = "boundaries" /\ status = "ok"
    \/ IsFull /\ pc \in Pass2Pcs \cup {"full_loop", "full_file"}
    \/ IsFull /\ status = "ok"

\* C24 - position-based ids: when a boundary pass has answered with n segments,
\* the boundary rows stored for the video are n rows with the ids seg_000 ..
\* seg_(n-1), the row seg_i holding type and index range of the i-th returned
\* segment; the answer and the export of a full pipeline run give the i-th
\* segment the id of that row.
C24_PositionBasedIds ==
    /\ Pass1Answered =>
          /\ Cardinality(GetBoundaries(video_id)) = Len(segments)
          /\ \A j \in 1..Len(segments) :
                \E r \in GetBoundaries(video_id) :
                    /\ r.seg_id = ExpectedSegIds[j]
                    /\ r.type = segments[j].type
                    /\ r.start_u = segments[j].start_u
                    /\ r.end_u = segments[j].end_u
                    /\ r.confidence = segments[j].confidence
    /\ (IsFull /\ status = "ok") =>
          /\ Len(response.segments) = Len(segments)
          /\ Len(qa_export[video_id].boundary_segments) = Len(segments)
          /\ \A j \in 1..Len(segments) :
                /\ response.segments[j].seg_id = ExpectedSegIds[j]
                /\ response.segments[j].start_u = segments[j].start_u
                /\ response.segments[j].end_u = segments[j].end_u
                /\ qa_export[video_id].boundary_segments[j].seg_id = ExpectedSegIds[j]
                /\ qa_export[video_id].boundary_segments[j].start_u = segments[j].start_u
                /\ qa_export[video_id].boundary_segments[j].end_u = segments[j].end_u
                /\ export_file[video_id].boundary_segments[j].seg_id = ExpectedSegIds[j]

\* C24 witness: a full run answered with two segments given out of order;
\* seg_000 is the one the oracle listed first.
C24_Witness ==
    /\ IsFull
    /\ status = "ok"
    /\ Len(response.segments) = 2
    /\ response.segments[1].seg_id = "seg_000"
    /\ response.segments[1].start_u = 1
    /\ response.segments[2].seg_id = "seg_001"
    /\ response.segments[2].start_u = 0
    /\ \E r \in GetBoundaries(video_id) : r.seg_id = "seg_001" /\ r.start_u = 0

\* some utterance of the list has the index
IndexPresent(utts, idx) == \E p \in 1..Len(utts) : utts[p].u = idx

\* t is the start (end) time of the first utterance of the list with the index
IsStartOfFirst(utts, idx, t) ==
    \E p \in 1..Len(utts) :
        utts[p].u = idx /\ utts[p].start = t /\ \A q \in 1..(p - 1) : utts[q].u # idx
IsEndOfFirst(utts, idx, t) ==
    \E p \in 1..Len(utts) :
        utts[p].u = idx /\ utts[p].end = t /\ \A q \in 1..(p - 1) : utts[q].u # idx

\* the times of the unit are derived from the list: those of the first
\* utterance with the index, 0.0 when there is none
TimesDerived(unit, utts) ==
    /\ IndexPresent(utts, unit.start_u) => IsStartOfFirst(utts, unit.start_u, unit.start)
    /\ ~IndexPresent(utts, unit.start_u) => unit.start = 0
    /\ IndexPresent(utts, unit.end_u) => IsEndOfFirst(utts, unit.end_u, unit.end)
    /\ ~IndexPresent(utts, unit.end_u) => unit.end = 0

\* a time of the unit is 0.0 exactly when no utterance has the index
ZeroExactlyWhenMissing(unit, utts) ==
    /\ unit.start = 0 <=> ~IndexPresent(utts, unit.start_u)
    /\ unit.end = 0 <=> ~IndexPresent(utts, unit.end_u)

\* P holds of every segment and block stored or returned by the request in progress
EveryTimedUnit(P(_, _)) ==
    /\ Pass1Answered => \A r \in GetBoundaries(video_id) : P(r, utterances)
    /\ (IsFull /\ status = "ok") =>
          /\ \A j \in 1..Len(response.segments) : P(response.segments[j], utterances)
          /\ \A j \in 1..Len(response.qa_blocks) : P(response.qa_blocks[j], utterances)
          /\ \A j \in 1..Len(qa_export[video_id].qa_blocks) :
                P(qa_export[video_id].qa_blocks[j], utterances)
    /\ IsFull => \A j \in 1..Len(all_blocks) : P(all_blocks[j], utterances)
    /\ (pc = "p2_upsert" \/ (endpoint = "blocks" /\ status = "ok")) =>
          \A r \in GetBlocks(video_id) : P(r, b_utterances)

\* the rows Pass 2 stores inside a full run have the times segment_full derives
StoredTimesAgree ==
    (IsFull /\ pc = "p2_upsert") =>
        \A r \in GetBlocks(video_id) : TimesDerived(r, utterances)

\* C25 as stated - timing derivation: start and end of every stored or returned
\* segment and block are the start time of the first request utterance whose
\* index is start_u and the end time of the first whose index is end_u; each is
\* 0.0 exactly when no utterance has that index; the times Pass 2 stores equal
\* those the full pipeline derives for the same block.
C25_Original ==
    /\ EveryTimedUnit(TimesDerived)
    /\ EveryTimedUnit(ZeroExactlyWhenMissing)
    /\ StoredTimesAgree

\* C25 amended - as stated, except that a time is 0.0 whenever no utterance has
\* the index (it may be 0.0 also when the utterance found starts at 0.0).
C25_TimingDerivation ==
    /\ EveryTimedUnit(TimesDerived)
    /\ StoredTimesAgree

\* C25 witness: a full run answered with a block whose start_u is the index of
\* no utterance (start 0.0) and whose end_u is the index of two utterances, the
\* first of which gives the end time.
C25_Witness ==
    /\ IsFull
    /\ status = "ok"
    /\ Len(response.qa_blocks) = 1
    /\ ~IndexPresent(utterances, response.qa_blocks[1].start_u)
    /\ response.qa_blocks[1].start = 0
    /\ Len(utterances) = 2
    /\ utterances[1].u = utterances[2].u
    /\ response.qa_blocks[1].end_u = utterances[1].u
    /\ response.qa_blocks[1].end = utterances[1].end
    /\ Cardinality(GetBlocks(video_id)) = 1

\* the texts of the first n utterances of the list whose index lies in
\* [lo, hi], in list order, with one space between two of them (every
\* utterance text of the model is non-empty)
RECURSIVE SpacedTexts(_, _, _, _)
SpacedTexts(utts, n, lo, hi) ==
    IF n = 0 THEN ""
    ELSE LET before == SpacedTexts(utts, n - 1, lo, hi)
         IN IF ~(lo <= utts[n].u /\ utts[n].u <= hi) THEN before
            ELSE IF before = "" THEN utts[n].text
            ELSE before \o " " \o utts[n].text

\* C26 - text assembly: the text of every block of a full pipeline result is
\* the texts of exactly the request's utterances whose index lies in
\* [start_u, end_u], in request order, joined by single spaces, and the empty
\* string when no utterance is in the range.
C26_TextAssembly ==
    IsFull =>
        /\ \A j \in 1..Len(all_blocks) :
              LET block == all_blocks[j]
              IN /\ block.text = SpacedTexts(utterances, Len(utterances),
                                             block.start_u, block.end_u)
                 /\ (\A p \in 1..Len(utterances) :
                        ~(block.start_u <= utterances[p].u /\ utterances[p].u <= block.end_u))
                    => block.text = ""
        /\ status = "ok" =>
              /\ response.qa_blocks = all_blocks
              /\ qa_export[video_id].qa_blocks = all_blocks

\* C26 witness: a full run answered with a block [1, 1] of a two-utterance
\* transcript whose second utterance alone has index 1; its text is that
\* utterance's text.
C26_Witness ==
    /\ IsFull
    /\ status = "ok"
    /\ Len(utterances) = 2
    /\ utterances[1].u = 0
    /\ utterances[2].u = 1
    /\ Len(response.qa_blocks) = 1
    /\ response.qa_blocks[1].start_u = 1
    /\ response.qa_blocks[1].end_u = 1
    /\ response.qa_blocks[1].text = "w2"

\* the utterances carry the indices 0 .. n-1 in list order
IndexedByPosition(utts) == \A p \in 1..Len(utts) : utts[p].u = p - 1

\* C27 - index derivation from a raw transcription: the utterances extracted
\* from a Deepgram document carry the indices 0, 1, ..., n-1 of their position
\* in results.utterances, whatever id the raw records hold, with the record's
\* times and text; so the indices are distinct and contiguous, and the upper
\* bound Pass 1 validates against is n-1.
C27_IndexFromPosition ==
    /\ \A doc \in DeepgramDocs :
          (doc.shape = "ok" /\ doc.utterances # <<>>) =>
              LET utts == ExtractUtterances(doc)
              IN /\ Len(utts) = Len(doc.utterances)
                 /\ IndexedByPosition(utts)
                 /\ \A p \in 1..Len(utts) :
                       /\ utts[p].start = doc.utterances[p].start
                       /\ utts[p].end = doc.utterances[p].end
                       /\ utts[p].text = doc.utterances[p].transcript
    /\ (endpoint = "from_deepgram" /\ utterances # <<>>) =>
          /\ IndexedByPosition(utterances)
          /\ \A p, q \in 1..Len(utterances) : p # q => utterances[p].u # utterances[q].u
          /\ MaxU(utterances) = Len(utterances) - 1
          /\ \A j \in 1..Len(segments) : segments[j].end_u <= Len(utterances) - 1

\* C27 witness: Pass 1 of a run from a Deepgram document with MaxUtts records
\* kept a segment that ends at the last of them.
C27_Witness ==
    /\ endpoint = "from_deepgram"
    /\ Len(utterances) = MaxUtts
    /\ status = "ok"
    /\ \E j \in 1..Len(response.segments) :
          response.segments[j].end_u = MaxUtts - 1 /\ response.segments[j].notes = NoNotes

\* ------------------------------------------------------- claims on failing passes
\* what the third failed oracle attempt of a block pass does
C28_FailStep ==
    (pc = "p2_oracle" /\ attempts = MaxAttempts - 1 /\ last_outcome' # "json") =>
        /\ qa_block' = qa_block
        /\ blocks' = <<>>
        /\ validated' = <<>>
        /\ ~IsFull =>
              /\ pc' = "done"
              /\ status' = "error502"
              /\ response' = NoResponse
              /\ qa_block' = pre.k
        /\ IsFull =>
              /\ pc' = "full_loop"
              /\ all_blocks' = all_blocks
              /\ Len(p2log') = Len(p2log) + 1
              /\ ~p2log'[Len(p2log')].ok
              /\ p2log'[Len(p2log')].blocks = <<>>

\* C28 - when the oracle invocation of a block pass fails after its retries,
\* the call ends in an error, no fallback block takes the place of an answer,
\* and the block rows of the video are left as they were; in a full pipeline
\* run the rows written for earlier qa segments are neither removed nor
\* overwritten by the failing segment.
C28_Pass2OracleFailure ==
    /\ []((endpoint = "blocks" /\ status = "error502") =>
            /\ qa_block = pre.k
            /\ response = NoResponse
            /\ blocks = <<>>)
    /\ [][C28_FailStep]_vars

\* C28 witness: in a full run for vB the Pass 2 call of the first qa segment
\* stored its block, the call of the second failed three times, and the row of
\* the first is still in storage.
C28_Witness ==
    /\ IsFull
    /\ video_id = "vB"
    /\ pc = "full_loop"
    /\ Len(p2log) = 2
    /\ p2log[1].ok
    /\ ~p2log[2].ok
    /\ attempts = MaxAttempts
    /\ Cardinality(GetBlocks("vB")) = 1
    /\ \A r \in GetBlocks("vB") :
          r.start_u = p2log[1].blocks[1].start_u /\ r.end_u = p2log[1].blocks[1].end_u

\* what the failing step of Pass 1 does inside a full pipeline run
C29_FailStep ==
    (IsFull /\ pc \in {"p1_oracle", "p1_validate"} /\ pc' = "done") =>
        /\ status' \in {"error502", "error500"}
        /\ qa_block' = pre.k
        /\ qa_export' = pre.e
        /\ export_file' = pre.f
        /\ seg_pos' = 0
        /\ (pc = "p1_oracle" /\ attempts = MaxAttempts - 1 /\ last_outcome' # "json") =>
              status' = "error502"

\* C29 - when Pass 1 fails inside a full pipeline run, the run ends in an
\* error without any Pass 2 call, hence without a Pass 2 oracle invocation, and
\* the block rows, the export record and the export file of the video are
\* what they were when the request arrived.
C29_Pass1FailureInFullRun ==
    /\ []((IsFull /\ status \in {"error502", "error500"}) =>
            /\ pc = "done"
            /\ seg_pos = 0
            /\ p2log = <<>>
            /\ b_utterances = <<>>
            /\ all_blocks = <<>>
            /\ response = NoResponse
            /\ qa_block = pre.k
            /\ qa_export = pre.e
            /\ export_file = pre.f)
    /\ []((IsFull /\ pc = "p1_oracle") => attempts < MaxAttempts)
    /\ [][C29_FailStep]_vars

\* C29 witness: a full run for vA, which has a block row and an export, ended
\* in the error after three failed oracle attempts of Pass 1.
C29_Witness ==
    /\ IsFull
    /\ video_id = "vA"
    /\ status = "error502"
    /\ attempts = MaxAttempts
    /\ seg_pos = 0
    /\ Cardinality(GetBlocks("vA")) = 1
    /\ qa_export["vA"] = SeedExport
    /\ export_file["vA"] = SeedExport

\* ------------------------------------------------------- claims on concurrency
\* the rows a run writes when it is alone
RunRows(p) ==
    {BoundaryRow(RaceVideo, RaceUtterances, j - 1, r_segs[p][j]) : j \in 1..Len(r_segs[p])}

\* C30 as stated - two boundary passes for the same video served at once,
\* interleaved at the granularity of the delete and of each row's upsert,
\* leave in storage the complete segment list of exactly one of them, never a
\* mixture of rows of both.
C30_ConcurrentRunsDoNotMix ==
    (\A p \in Runs : r_pc[p] = "done") =>
        \E p \in Runs : RowsOf(qa_boundary, RaceVideo) = RunRows(p)

====
